---- MODULE Spec2Model ----
(***************************************************************************)
(* Seeker-Agent: the wallet intelligence engine.                           *)
(*                                                                         *)
(* Units.  Times are whole seconds.  USD amounts are counted in eighths of *)
(* a dollar (every such value and every sum of them is an exact IEEE       *)
(* double, so the integer arithmetic below is the arithmetic of the Python *)
(* floats).  SOL amounts are whole SOL.  Signal weights and the bot score  *)
(* are hundredths.  Reported (rounded) figures are integers in the unit of *)
(* the rounding: win_rate in 1/10000, total_pnl_usd in cents.              *)
(***************************************************************************)
EXTENDS Integers, Sequences, FiniteSets, TLC

VARIABLES
    \* the scorer as a function
    history,      \* input of compute_score_from_trades: a list of ParsedTrade
    min_trades,   \* settings.min_trades
    score,        \* result of compute_score_from_trades, or NoScore
    \* the other functions, one call at a time
    call,         \* the function called and its arguments, or <<>>
    returned,     \* what the call returned, or <<>>
    \* the persistence store
    wallets,      \* table wallets: a list of rows
    edges,        \* table wallet_edges: a list of rows
    trade_rows,   \* table trades: a list of rows
    \* the process
    now,          \* datetime.utcnow(), in hours
    ticks,        \* how often the clock has advanced
    errors,       \* counters.errors
    seeded,       \* run_agent: how many of the seed wallets have been inserted
    lastAlert,    \* the last message handed to the alerting collaborator
    \* scoring_loop
    pcS,          \* where the scoring loop stands
    batch,        \* the wallets read by get_wallets_due_for_rescore, not yet done
    cur,          \* the score computed for the wallet at the head of the batch
    \* discovery_loop
    pcD,          \* where the discovery loop stands
    dRoots,       \* active_wallets[:15] not yet expanded
    dSeen,        \* already_seen
    dEdge,        \* the edge discover_from_wallet is about to record
    \* webhook_management_loop
    tier1_max_wallets,  \* settings.tier1_max_wallets
    webhook_id,         \* _webhook_id
    webhook_addresses,  \* _webhook_addresses
    sync,               \* what the last cycle of the loop read, called and was answered
    wCycle,             \* the number of cycles of the loop, modulo 2
    \* handle_live_transaction
    live_txn,           \* the event last handed to the handler
    trades_processed,   \* counters.trades_processed
    alerts_sent,        \* counters.alerts_sent
    handler,            \* the handler between two awaits: its position and what it read
    \* the four loops as while / try / except / sleep
    loop_at,            \* where each loop stands: asleep, in its body, ended
    loop_iter,          \* the number of iterations each loop has begun, modulo 2
    loop_raised,        \* the loop whose body raised last
    \* Counters and the health loop's snapshot
    hourly_trades,      \* counters._hourly_trades: the kept record times, in hours
    hourly_alerts,      \* counters._hourly_alerts
    error_times,        \* history: when record_error steps counted an error
    health              \* the last AgentHealth row and heartbeat, or <<>>

purevars == <<history, min_trades, score, call, returned>>
storevars == <<wallets, edges, trade_rows>>
procvars == <<now, ticks, errors, seeded, lastAlert>>
scoringvars == <<pcS, batch, cur>>
discoveryvars == <<pcD, dRoots, dSeen, dEdge>>
webhookvars == <<tier1_max_wallets, webhook_id, webhook_addresses, sync, wCycle>>
livevars == <<live_txn, trades_processed, alerts_sent, handler>>
loopvars == <<loop_at, loop_iter, loop_raised>>
countervars == <<hourly_trades, hourly_alerts, error_times, health>>
sysvars ==
    <<storevars, procvars, scoringvars, discoveryvars, webhookvars, livevars,
      loopvars, countervars>>
vars == <<purevars, sysvars>>

None == "None"
Loops == {"discovery", "scoring", "webhook", "health"}
NoScore == [recommended_tier |-> "none"]

\* ------------------------------------------------------------------------
\* Configuration (config.py) and literals of scorer.py / bot_detector.py
\* ------------------------------------------------------------------------
DefaultMinTrades == 50
DefaultTier1MaxWallets == 200
MinWinRatePct == 30
BotScoreThreshold == 55
Tier1WinRatePct == 45
Tier1MinPnlUsd == 500
Tier1MinTrades == 80
UsdUnit == 8
SecondsPerDay == 86400

CANDIDATE == "candidate"
TIER2 == "tier2"
TIER1 == "tier1"
EXILED == "exiled"
ARCHIVED == "archived"
WalletTier == {CANDIDATE, TIER2, TIER1, EXILED, ARCHIVED}

\* ------------------------------------------------------------------------
\* Arithmetic helpers
\* ------------------------------------------------------------------------
Abs(x) == IF x < 0 THEN -x ELSE x
Max(a, b) == IF a >= b THEN a ELSE b
Min(a, b) == IF a <= b THEN a ELSE b

\* sum(): a sequence of integers added up (by halves, to keep the
\* evaluation shallow; integer addition does not depend on the grouping).
RECURSIVE SumSeq(_)
SumSeq(s) ==
    IF Len(s) = 0 THEN 0
    ELSE IF Len(s) = 1 THEN s[1]
    ELSE LET h == Len(s) \div 2
         IN  SumSeq(SubSeq(s, 1, h)) + SumSeq(SubSeq(s, h + 1, Len(s)))

\* Python round(): the quotient n/d (d > 0) rounded to the nearest integer,
\* ties to even.  It is the value Python computes whenever n/d is a dyadic
\* rational or not a tie; for the win rate that is every trade count below
\* 160, the first count where a decimal tie is not a binary one.
RoundHalfEven(n, d) ==
    LET q == n \div d
        r == n % d
    IN  IF 2 * r > d \/ (2 * r = d /\ q % 2 = 1) THEN q + 1 ELSE q

\* ------------------------------------------------------------------------
\* sorted(trades, key=lambda x: x.block_time): a stable sort
\* ------------------------------------------------------------------------
\* A Python list built by a comprehension: the same sequence, with every
\* element computed once.
List(f) == SubSeq(f, 1, Len(f))

\* The history taken in the order given, not sorted.
SortByTimeUnsorted(s) == s

\* The trade at input position i goes to position rank[i]: after every trade
\* with an earlier time and after the trades of the same time that come
\* before it in the input.
SortByTime(s) ==
    LET n == Len(s)
        time == List([i \in 1..n |-> s[i].block_time])
        rank == List([i \in 1..n |->
                    Cardinality({j \in 1..n :
                        \/ time[j] < time[i]
                        \/ (time[j] = time[i] /\ j <= i)})])
    IN  List([p \in 1..n |-> s[CHOOSE i \in 1..n : rank[i] = p]])

\* ------------------------------------------------------------------------
\* bot_detector.py: analyse_wallet_for_bot
\* ------------------------------------------------------------------------
KNOWN_BOT_FUNDERS == {}

Buys(trades) == SelectSeq(trades, LAMBDA t : t.side = "buy")
Sells(trades) == SelectSeq(trades, LAMBDA t : t.side # "buy")
OfToken(trades, token) == SelectSeq(trades, LAMBDA t : t.token_address = token)
TimesOf(trades) == {trades[i].block_time : i \in 1..Len(trades)}
MaxOf(S) == CHOOSE x \in S : \A y \in S : y <= x
MinOf(S) == CHOOSE x \in S : \A y \in S : x <= y

\* Signal 1: mean blocks-after-mint over the trades that carry the field.
SniperSignal(trades) ==
    LET snipe == SelectSeq(trades, LAMBDA t : t.blocks_after_mint # <<>>)
        total == SumSeq(List([i \in 1..Len(snipe) |-> snipe[i].blocks_after_mint[1]]))
        n     == Len(snipe)
    IN  IF n = 0 THEN <<>>
        ELSE IF total < 3 * n THEN << <<"ultra_sniper", 35>> >>
        ELSE IF total < 15 * n THEN << <<"fast_sniper", 20>> >>
        ELSE IF total < 50 * n THEN << <<"moderate_sniper", 8>> >>
        ELSE <<>>

\* Signal 2: for every sell, the time since the earliest buy of the same
\* token at or before it (buys are not consumed here).
BotHoldTimes(trades) ==
    LET sells == Sells(trades)
        relevant(sell) == {b.block_time : b \in
                             {trades[i] : i \in {j \in 1..Len(trades) :
                                 /\ trades[j].side = "buy"
                                 /\ trades[j].token_address = sell.token_address
                                 /\ trades[j].block_time <= sell.block_time}}}
        matched == SelectSeq(sells, LAMBDA s : relevant(s) # {})
    IN  List([i \in 1..Len(matched) |->
                matched[i].block_time - MinOf(relevant(matched[i]))])

HoldSignal(trades) ==
    LET holds == BotHoldTimes(trades)
        total == SumSeq(holds)
        n     == Len(holds)
    IN  IF n = 0 THEN <<>>
        ELSE IF total < 30 * n THEN << <<"sub_30s_holds", 30>> >>
        ELSE IF total < 120 * n THEN << <<"sub_2min_holds", 18>> >>
        ELSE IF total < 300 * n THEN << <<"sub_5min_holds", 8>> >>
        ELSE <<>>

\* Signal 3: cv = std / (mean + 1e-9) of the positive SOL amounts.  With
\* S the sum, Q the sum of squares and D = n*Q - S*S, cv < c is
\* D <= c^2 * S^2 (the 1e-9 makes the boundary case fire).
SizeSignal(trades) ==
    LET sized == SelectSeq(trades, LAMBDA t : t.amount_sol > 0)
        n == Len(sized)
        S == SumSeq(List([i \in 1..n |-> sized[i].amount_sol]))
        Q == SumSeq(List([i \in 1..n |-> sized[i].amount_sol * sized[i].amount_sol]))
        D == n * Q - S * S
    IN  IF n < 5 THEN <<>>
        ELSE IF D <= (9 * S * S) \div 10000 THEN << <<"identical_sizes", 25>> >>
        ELSE IF D <= (S * S) \div 100 THEN << <<"very_uniform_sizes", 12>> >>
        ELSE <<>>

\* Signal 4: trades per day of the active span (whole days, at least 1).
FrequencySignal(trades) ==
    LET n    == Len(trades)
        days == Max((MaxOf(TimesOf(trades)) - MinOf(TimesOf(trades))) \div SecondsPerDay, 1)
    IN  IF n < 10 THEN <<>>
        ELSE IF n > 200 * days THEN << <<"extreme_frequency", 20>> >>
        ELSE IF n > 80 * days THEN << <<"high_frequency", 12>> >>
        ELSE IF n > 40 * days THEN << <<"elevated_frequency", 5>> >>
        ELSE <<>>

\* Signal 5: the share of sells among the trades (the "win rate" proxy).
WinRateSignal(trades) ==
    IF Len(trades) >= 100 /\ 100 * Len(Sells(trades)) > 88 * Len(trades)
    THEN << <<"perfect_win_rate", 12>> >> ELSE <<>>

\* Signal 6: share of trades sent through the relay.
JitoSignal(trades) ==
    LET jito == Len(SelectSeq(trades, LAMBDA t : t.used_jito))
    IN  IF Len(trades) >= 10 /\ 10 * jito > 9 * Len(trades)
        THEN << <<"always_jito", 10>> >> ELSE <<>>

\* Signal 7: unique tokens traded over tokens bought, below 1.05.
DiversitySignal(trades) ==
    LET unique == Cardinality({trades[i].token_address : i \in 1..Len(trades)})
        bought == Cardinality({trades[i].token_address :
                                 i \in {j \in 1..Len(trades) : trades[j].side = "buy"}})
    IN  IF bought > 0 /\ 100 * unique < 105 * bought
        THEN << <<"zero_diversity", 8>> >> ELSE <<>>

\* Signal 8: the funding wallet is a known bot-farm funder.
FunderSignal(funder_address) ==
    IF funder_address # None /\ funder_address \in KNOWN_BOT_FUNDERS
    THEN << <<"known_bot_funder", 45>> >> ELSE <<>>

\* Signal 9: with 30 trades or more, the longest pause stays under 2 hours.
MaxGap(sorted) ==
    IF Len(sorted) < 2 THEN 0
    ELSE MaxOf({sorted[i + 1].block_time - sorted[i].block_time : i \in 1..(Len(sorted) - 1)})

NoSleepSignal(trades) ==
    IF Len(trades) >= 30 /\ MaxGap(SortByTime(trades)) < 2 * 3600
    THEN << <<"no_sleep_pattern", 10>> >> ELSE <<>>

\* sum(signals.values()) adds IEEE doubles in insertion order.  These are
\* the weight lists (hundredths) whose exact sum is 0.55 and whose double
\* sum is 0.5499999999999999; for every other list the double sum compares
\* with 0.55 and rounds to three places as the exact sum does.
FloatSumBelow55 ==
    { <<25, 12, 10, 8>>, <<30, 5, 10, 10>>, <<30, 5, 12, 8>>, <<30, 12, 5, 8>>,
      <<18, 5, 12, 10, 10>>, <<18, 12, 5, 10, 10>>, <<18, 12, 5, 12, 8>>,
      <<8, 12, 5, 12, 10, 8>>, <<35, 10, 10>>, <<35, 12, 8>>,
      <<20, 5, 12, 10, 8>>, <<20, 12, 5, 10, 8>> }

\* Line 140, total_score >= settings.bot_score_threshold, on doubles.  For
\* the thresholds 0, 0.30, 0.50 and 0.60 the double sum of every weight list
\* compares as the exact sum does.
ReachesThreshold(weights, bot_score_threshold) ==
    /\ Min(SumSeq(weights), 100) >= bot_score_threshold
    /\ ~(bot_score_threshold = BotScoreThreshold /\ weights \in FloatSumBelow55)

\* The analysis with the threshold read before the history is looked at.
analyse_wallet_threshold_first(trades, funder_address, bot_score_threshold) ==
    LET signals == IF trades = <<>> THEN << <<"no_data", 50>> >>
                   ELSE SniperSignal(trades) \o HoldSignal(trades) \o SizeSignal(trades)
                        \o FrequencySignal(trades) \o WinRateSignal(trades)
                        \o JitoSignal(trades) \o DiversitySignal(trades)
                        \o FunderSignal(funder_address) \o NoSleepSignal(trades)
        weights == List([i \in 1..Len(signals) |-> signals[i][2]])
    IN  [bot_score |-> Min(SumSeq(weights), 100),
         is_bot    |-> ReachesThreshold(weights, bot_score_threshold),
         signals   |-> signals]

\* settings.bot_score_threshold is the third argument.
analyse_wallet_for_bot(trades, funder_address, bot_score_threshold) ==
    IF trades = <<>>
    THEN [bot_score |-> 50, is_bot |-> FALSE, signals |-> << <<"no_data", 50>> >>]
    ELSE LET signals == SniperSignal(trades) \o HoldSignal(trades) \o SizeSignal(trades)
                        \o FrequencySignal(trades) \o WinRateSignal(trades)
                        \o JitoSignal(trades) \o DiversitySignal(trades)
                        \o FunderSignal(funder_address) \o NoSleepSignal(trades)
             weights == List([i \in 1..Len(signals) |-> signals[i][2]])
         IN  [bot_score |-> Min(SumSeq(weights), 100),
              is_bot    |-> ReachesThreshold(weights, bot_score_threshold),
              signals   |-> signals]


\* ------------------------------------------------------------------------
\* scorer.py: compute_score_from_trades
\* ------------------------------------------------------------------------
\* The keys of a dict filled from `trades`, in insertion order.
TokensInOrder(trades) ==
    LET first(tok) == MinOf({i \in 1..Len(trades) : trades[i].token_address = tok})
        firsts == {i \in 1..Len(trades) : first(trades[i].token_address) = i}
    IN  List([p \in 1..Cardinality(firsts) |->
            trades[CHOOSE i \in firsts : Cardinality({j \in firsts : j <= i}) = p].token_address])

\* The matching loop taking the head of the queue whatever its time.
RECURSIVE MatchRangeAnyBuy(_, _, _, _, _)
MatchRangeAnyBuy(buys, sells, lo, hi, used) ==
    IF lo > hi THEN [used |-> used, out |-> <<>>]
    ELSE IF lo = hi
    THEN LET sell == sells[lo]
             queue == SubSeq(buys, used + 1, Len(buys))
         IN  IF queue # <<>>
             THEN [used |-> used + 1,
                   out |-> << [sell     |-> sell.signature,
                               buy      |-> Head(queue).signature,
                               consumed |-> Head(queue).signature,
                               token    |-> sell.token_address,
                               pnl      |-> sell.amount_usd - Head(queue).amount_usd,
                               hold     |-> sell.block_time - Head(queue).block_time] >>]
             ELSE [used |-> used, out |-> <<>>]
    ELSE LET mid == (lo + hi) \div 2
             left == MatchRangeAnyBuy(buys, sells, lo, mid, used)
         IN  IF left.used >= used
             THEN LET right == MatchRangeAnyBuy(buys, sells, mid + 1, hi, left.used)
                  IN  [used |-> right.used, out |-> left.out \o right.out]
             ELSE left

MatchSellsAnyBuy(queue, sells) == MatchRangeAnyBuy(queue, sells, 1, Len(sells), 0).out

\* The loop over one token's sells, for the sells lo..hi in turn, `used`
\* buys having left the queue before them: the number of buys that have
\* left the queue after them and the matches they made.  A sell takes the
\* first queued buy at or before it (prior_buys[0]) and the head of the
\* queue is dropped.  Evaluated by halves, the left half first.
RECURSIVE MatchRange(_, _, _, _, _)
MatchRange(buys, sells, lo, hi, used) ==
    IF lo > hi THEN [used |-> used, out |-> <<>>]
    ELSE IF lo = hi
    THEN LET sell == sells[lo]
             queue == SubSeq(buys, used + 1, Len(buys))
             prior_buys == SelectSeq(queue, LAMBDA b : b.block_time <= sell.block_time)
         IN  IF prior_buys # <<>>
             THEN [used |-> used + 1,
                   out |-> << [sell     |-> sell.signature,
                               buy      |-> Head(prior_buys).signature,
                               consumed |-> Head(queue).signature,
                               token    |-> sell.token_address,
                               pnl      |-> sell.amount_usd - Head(prior_buys).amount_usd,
                               hold     |-> sell.block_time - Head(prior_buys).block_time] >>]
             ELSE [used |-> used, out |-> <<>>]
    ELSE LET mid == (lo + hi) \div 2
             left == MatchRange(buys, sells, lo, mid, used)
         IN  IF left.used >= used
             THEN LET right == MatchRange(buys, sells, mid + 1, hi, left.used)
                  IN  [used |-> right.used, out |-> left.out \o right.out]
             ELSE left

\* The matches of one token: the loop over all its sells.
MatchSells(queue, sells) == MatchRange(queue, sells, 1, Len(sells), 0).out

RECURSIVE MatchTokens(_, _, _)
MatchTokens(tokens, token_buys, token_sells) ==
    IF tokens = <<>> THEN <<>>
    ELSE MatchSells(OfToken(token_buys, Head(tokens)), OfToken(token_sells, Head(tokens)))
         \o MatchTokens(Tail(tokens), token_buys, token_sells)

\* The matched sells, in the order trade_pnls is filled.
FifoMatches(trades) ==
    LET sorted == SortByTime(trades)
        token_buys == Buys(sorted)
        token_sells == Sells(sorted)
    IN  MatchTokens(TokensInOrder(token_sells), token_buys, token_sells)

\* The tier rules with the bot rule after the thresholds.
RecommendTierBotLast(is_bot, total_trades, winning_trades, total_pnl, minTrades) ==
    IF \/ total_trades < minTrades
       \/ 100 * winning_trades < MinWinRatePct * total_trades
       \/ (total_trades = 0 /\ MinWinRatePct > 0)
    THEN CANDIDATE
    ELSE IF /\ total_trades > 0
            /\ 100 * winning_trades >= Tier1WinRatePct * total_trades
            /\ total_pnl > Tier1MinPnlUsd * UsdUnit
            /\ total_trades >= Tier1MinTrades
         THEN TIER1
    ELSE IF is_bot THEN EXILED
    ELSE TIER2

\* The tier rules with "and" between the two minimum thresholds.
RecommendTierBothBelow(is_bot, total_trades, winning_trades, total_pnl, minTrades) ==
    IF is_bot THEN EXILED
    ELSE IF /\ total_trades < minTrades
            /\ \/ 100 * winning_trades < MinWinRatePct * total_trades
               \/ (total_trades = 0 /\ MinWinRatePct > 0)
         THEN CANDIDATE
    ELSE IF /\ total_trades > 0
            /\ 100 * winning_trades >= Tier1WinRatePct * total_trades
            /\ total_pnl > Tier1MinPnlUsd * UsdUnit
            /\ total_trades >= Tier1MinTrades
         THEN TIER1
    ELSE TIER2

\* The tier rules with total PnL >= 500 in the tier1 rule.
RecommendTierPnlAtLeast(is_bot, total_trades, winning_trades, total_pnl, minTrades) ==
    IF is_bot THEN EXILED
    ELSE IF \/ total_trades < minTrades
            \/ 100 * winning_trades < MinWinRatePct * total_trades
            \/ (total_trades = 0 /\ MinWinRatePct > 0)
         THEN CANDIDATE
    ELSE IF /\ total_trades > 0
            /\ 100 * winning_trades >= Tier1WinRatePct * total_trades
            /\ total_pnl >= Tier1MinPnlUsd * UsdUnit
            /\ total_trades >= Tier1MinTrades
         THEN TIER1
    ELSE TIER2

\* The tier recommendation (win_rate = winning_trades / total_trades, 0.0
\* when there are no matched sells; total_pnl in eighths of a dollar).
RecommendTier(is_bot, total_trades, winning_trades, total_pnl, minTrades) ==
    IF is_bot THEN EXILED
    ELSE IF \/ total_trades < minTrades
            \/ 100 * winning_trades < MinWinRatePct * total_trades
            \/ (total_trades = 0 /\ MinWinRatePct > 0)
         THEN CANDIDATE
    ELSE IF /\ total_trades > 0
            /\ 100 * winning_trades >= Tier1WinRatePct * total_trades
            /\ total_pnl > Tier1MinPnlUsd * UsdUnit
            /\ total_trades >= Tier1MinTrades
         THEN TIER1
    ELSE TIER2

compute_score_from_trades(trades, minTrades, bot_score_threshold) ==
    LET bot_analysis == analyse_wallet_for_bot(trades, None, bot_score_threshold)
        matches == FifoMatches(trades)
        trade_pnls == List([i \in 1..Len(matches) |-> matches[i].pnl])
        total_trades == Len(trade_pnls)
        winning_trades == Len(SelectSeq(trade_pnls, LAMBDA p : p > 0))
        total_pnl == SumSeq(trade_pnls)
    IN  [win_rate         |-> IF total_trades > 0
                              THEN RoundHalfEven(10000 * winning_trades, total_trades)
                              ELSE 0,
         total_trades     |-> total_trades,
         winning_trades   |-> winning_trades,
         total_pnl_usd    |-> RoundHalfEven(100 * total_pnl, UsdUnit),
         bot_score        |-> bot_analysis.bot_score,
         is_bot           |-> bot_analysis.is_bot,
         matches          |-> matches,
         recommended_tier |-> RecommendTier(bot_analysis.is_bot, total_trades,
                                            winning_trades, total_pnl, minTrades)]


\* ------------------------------------------------------------------------
\* Trade histories given to the scorer
\* ------------------------------------------------------------------------
MaxLen == 3

Trade(sig, token, side, sol, usd, time, bam) ==
    [signature |-> sig, token_address |-> token, side |-> side, amount_sol |-> sol,
     amount_usd |-> usd, block_time |-> time, used_jito |-> FALSE,
     blocks_after_mint |-> bam]

\* Short histories: every list of up to MaxLen trades over two tokens, two
\* times and two amounts ($100, $150); `bam` is the blocks-after-mint of
\* all its trades (<<>> when the field is not set).
BaseTrades == [token : {"T", "U"}, side : {"buy", "sell"}, time : {0, 60}, usd : {800, 1200}]

ShortHistory(base, bam) ==
    [i \in 1..Len(base) |->
        Trade(i, base[i].token, base[i].side, 1, base[i].usd, base[i].time, bam)]

ShortHistories ==
    {ShortHistory(base, bam) :
        base \in UNION {[1..n -> BaseTrades] : n \in 0..MaxLen}, bam \in {<<>>, <<2>>}}

\* Long histories: k buy/sell pairs of one token, each buy costing $100.
\* The first nWin pairs gain `gain` eighths of a dollar, the others lose $1.
\* A "steady" history trades once a day with sizes 1 and 3 SOL; a "rapid"
\* one trades every second with one size.
LongHistory(k, nWin, gain, rapid) ==
    [j \in 1..(2 * k) |->
        LET i == (j + 1) \div 2
            start == IF rapid THEN 2 * (i - 1) ELSE SecondsPerDay * (i - 1)
            sol == IF rapid THEN 1 ELSE 1 + 2 * (i % 2)
        IN  IF j % 2 = 1
            THEN Trade(j, "L", "buy", sol, 800, start, <<>>)
            ELSE Trade(j, "L", "sell", sol, IF i <= nWin THEN 800 + gain ELSE 792,
                       start + (IF rapid THEN 1 ELSE SecondsPerDay \div 2), <<>>)]

LongPairs == {49, 50, 79, 80, 81}
LongWins == {14, 15, 35, 36, 81}
LongGains == {50, 51, 160}

LongHistories ==
    {LongHistory(k, Min(w, k), g, r) :
        k \in LongPairs, w \in LongWins, g \in LongGains, r \in BOOLEAN}

Histories == ShortHistories \cup LongHistories
MinTradesValues == {0, 1, 2, DefaultMinTrades, 81}

\* ------------------------------------------------------------------------
\* The persistence store (database.py) and the statements run against it
\* ------------------------------------------------------------------------
RescoreHours == 1
PruneInactiveDays == 30
HoursPerDay == 24
ClusterLookbackHours == 24
BatchLimit == 50
ActiveLimit == 30
RootLimit == 15
MinAddressLen == 32
MaxAddressLen == 44
BirdeyeConfigured == TRUE

\* Addresses: "A" and "B" are well-formed, "x" is too short.
Addresses == {"A", "B"}
UpstreamAddresses == Addresses \cup {"x"}
AddressLen(a) == IF a = "A" THEN 44 ELSE IF a = "B" THEN 32 ELSE 5
SEED_WALLETS == <<"A", "A">>
Tokens == {"T"}

\* A Wallet row as the INSERT of ensure_wallet_exists and the column
\* defaults make it.  A nullable timestamp is <<>> or <<t>>.
NewWallet(address, source, t) ==
    [address |-> address, tier |-> CANDIDATE,
     win_rate |-> 0, total_trades |-> 0, winning_trades |-> 0,
     total_pnl_usd |-> 0, bot_score |-> 0,
     first_seen |-> t, last_active |-> t, last_scored |-> <<>>,
     discovery_source |-> source, notes |-> None]

RowsOf(table, address) == {i \in 1..Len(table) : table[i].address = address}
HasWallet(address) == RowsOf(wallets, address) # {}
WalletOf(address) == wallets[CHOOSE i \in RowsOf(wallets, address) : TRUE]

\* INSERT ... ON CONFLICT (address) DO NOTHING, without the conflict clause.
ensure_wallet_always_inserts(table, address, source, t) ==
    IF AddressLen(address) < MinAddressLen \/ AddressLen(address) > MaxAddressLen
    THEN [wallets |-> table, is_new |-> FALSE]
    ELSE [wallets |-> Append(table, NewWallet(address, source, t)), is_new |-> TRUE]

\* The INSERT with ON CONFLICT DO UPDATE: the row of a known address gets
\* the values of the statement again.
ensure_wallet_upserts(table, address, source, t) ==
    IF AddressLen(address) < MinAddressLen \/ AddressLen(address) > MaxAddressLen
    THEN [wallets |-> table, is_new |-> FALSE]
    ELSE IF RowsOf(table, address) # {}
         THEN [wallets |-> [k \in 1..Len(table) |->
                              IF table[k].address = address
                              THEN [table[k] EXCEPT !.tier = CANDIDATE,
                                                    !.discovery_source = source,
                                                    !.first_seen = t,
                                                    !.last_active = t]
                              ELSE table[k]],
               is_new |-> FALSE]
         ELSE [wallets |-> Append(table, NewWallet(address, source, t)), is_new |-> TRUE]

\* discovery.py: ensure_wallet_exists.  The unique index on address makes
\* the INSERT conflict when a row of that address exists; then nothing is
\* written and rowcount is 0.
ensure_wallet_exists(table, address, source, t) ==
    IF AddressLen(address) < MinAddressLen \/ AddressLen(address) > MaxAddressLen
    THEN [wallets |-> table, is_new |-> FALSE]
    ELSE IF RowsOf(table, address) # {}
         THEN [wallets |-> table, is_new |-> FALSE]
         ELSE [wallets |-> Append(table, NewWallet(address, source, t)), is_new |-> TRUE]

\* discovery.py: record_edge.  wallet_edges has no unique constraint but its
\* primary key id (ix_edges_source_target is a plain index), so ON CONFLICT
\* DO NOTHING never finds a conflict and every call inserts a row.
record_edge(table, source, target, shared_token) ==
    Append(table, [source_address |-> source, target_address |-> target,
                   shared_token |-> shared_token, block_delta |-> 0,
                   co_occurrences |-> 1])

\* scorer.py: persist_score: UPDATE wallets SET ... WHERE address = ...
persist_score(table, address, sc, t) ==
    [i \in 1..Len(table) |->
        IF table[i].address = address
        THEN [table[i] EXCEPT !.win_rate = sc.win_rate,
                              !.total_trades = sc.total_trades,
                              !.winning_trades = sc.winning_trades,
                              !.total_pnl_usd = sc.total_pnl_usd,
                              !.bot_score = sc.bot_score,
                              !.tier = sc.recommended_tier,
                              !.last_scored = <<t>>]
        ELSE table[i]]

\* The lists a query may return for the rows `S` (row numbers) ordered by
\* key (a function of the row number): rows of equal key come in any order.
Ordered(S, key) ==
    {f \in [1..Cardinality(S) -> S] :
        /\ \A i, j \in 1..Cardinality(S) : i # j => f[i] # f[j]
        /\ \A i, j \in 1..Cardinality(S) : i < j => key[f[i]] <= key[f[j]]}

Take(seq, n) == SubSeq(seq, 1, Min(n, Len(seq)))

\* What the scoring loop keeps of a row it read.
Snapshot(row) == [address |-> row.address, tier |-> row.tier]

\* The rescoring query without its tier filter.
get_wallets_due_any_tier(table, t, limit) ==
    LET due == {i \in 1..Len(table) :
                  \/ table[i].last_scored = <<>>
                  \/ table[i].last_scored[1] < t - RescoreHours}
        nullsfirst == [i \in due |-> IF table[i].last_scored = <<>> THEN -1
                                     ELSE table[i].last_scored[1]]
    IN  {[k \in 1..Min(limit, Len(f)) |-> Snapshot(table[f[k]])] :
            f \in Ordered(due, nullsfirst)}

\* The rescoring query without its ORDER BY: the due rows in any order.
get_wallets_due_unordered(table, t, limit) ==
    LET due == {i \in 1..Len(table) :
                  /\ table[i].tier # EXILED
                  /\ table[i].tier # ARCHIVED
                  /\ \/ table[i].last_scored = <<>>
                     \/ table[i].last_scored[1] < t - RescoreHours}
        anyorder == [i \in due |-> 0]
    IN  {[k \in 1..Min(limit, Len(f)) |-> Snapshot(table[f[k]])] :
            f \in Ordered(due, anyorder)}

\* scorer.py: get_wallets_due_for_rescore: not exiled, not archived, never
\* scored or scored more than an hour ago; never-scored first, then oldest
\* first; at most `limit`.
get_wallets_due_for_rescore(table, t, limit) ==
    LET due == {i \in 1..Len(table) :
                  /\ table[i].tier # EXILED
                  /\ table[i].tier # ARCHIVED
                  /\ \/ table[i].last_scored = <<>>
                     \/ table[i].last_scored[1] < t - RescoreHours}
        nullsfirst == [i \in due |-> IF table[i].last_scored = <<>> THEN -1
                                     ELSE table[i].last_scored[1]]
    IN  {[k \in 1..Min(limit, Len(f)) |-> Snapshot(table[f[k]])] :
            f \in Ordered(due, nullsfirst)}

\* Pruning by DELETE instead of UPDATE.
prune_inactive_deletes(table, t) ==
    SelectSeq(table, LAMBDA row :
        ~(/\ row.last_active < t - PruneInactiveDays * HoursPerDay
          /\ row.tier \in {TIER2, CANDIDATE}))

\* The pruning UPDATE without the condition on the tier.
prune_inactive_any_tier(table, t) ==
    [i \in 1..Len(table) |->
        IF table[i].last_active < t - PruneInactiveDays * HoursPerDay
        THEN [table[i] EXCEPT !.tier = ARCHIVED]
        ELSE table[i]]

\* orchestrator.py: health_loop: the pruning UPDATE.
prune_inactive(table, t) ==
    [i \in 1..Len(table) |->
        IF /\ table[i].last_active < t - PruneInactiveDays * HoursPerDay
           /\ table[i].tier \in {TIER2, CANDIDATE}
        THEN [table[i] EXCEPT !.tier = ARCHIVED]
        ELSE table[i]]

\* bot_detector.py: detect_bot_clusters.  wallet_trade_map is a dict, which
\* keeps insertion order: a sequence of [wallet, trades] entries, the trades
\* being records with token_address, side and block_time (seconds).  The
\* result maps each clustered wallet to the number n of its identifier
\* "cluster_%04d" % n.
BlockDeltaThreshold == 5
MinCoOccurrences == 3
SecondsPerHour == 3600

\* The elements of seq at the positions I, in the order of seq.
Pick(seq, I) ==
    [k \in 1..Cardinality(I) |->
        seq[CHOOSE i \in I : Cardinality({j \in I : j < i}) = k - 1]]
\* The keys of a dict filled in the order of seq.
FirstSeen(seq) ==
    Pick(seq, {i \in 1..Len(seq) : \A j \in 1..(i - 1) : seq[j] # seq[i]})

\* Python's order of the address strings used in the model.
SortedAddresses == <<"A", "B", "C", "D", "x">>
AddressRank(w) == CHOOSE i \in 1..Len(SortedAddresses) : SortedAddresses[i] = w
pair_key(w1, w2) ==
    IF AddressRank(w1) <= AddressRank(w2) THEN <<w1, w2>> ELSE <<w2, w1>>

\* lines 164-168: the (wallet, block_time, token) of every buy, in the order
\* the two for loops visit them.
RECURSIVE all_buys(_)
all_buys(wallet_trade_map) ==
    IF wallet_trade_map = <<>> THEN <<>>
    ELSE LET e == Head(wallet_trade_map)
             buys == SelectSeq(e.trades, LAMBDA trade : trade.side = "buy")
         IN  [k \in 1..Len(buys) |->
                 [wallet |-> e.wallet, block_time |-> buys[k].block_time,
                  token_address |-> buys[k].token_address]]
             \o all_buys(Tail(wallet_trade_map))

\* line 172: list.sort is stable.
sort_by_time(buyers) ==
    LET before(i) == {j \in 1..Len(buyers) :
                        \/ buyers[j].block_time < buyers[i].block_time
                        \/ buyers[j].block_time = buyers[i].block_time /\ j < i}
    IN  [k \in 1..Len(buyers) |->
            buyers[CHOOSE i \in 1..Len(buyers) : Cardinality(before(i)) = k - 1]]

\* lines 173-180: the keys incremented for one token, in order; the inner
\* loop stops at the first later buy more than 0.4 * threshold seconds away.
token_pairs(buyers, block_delta_threshold) ==
    LET n == Len(buyers)
        far(i, j) == (buyers[j].block_time - buyers[i].block_time) * 10
                        > block_delta_threshold * 4
        scanned == {p \in (1..n) \X (1..n) :
                      /\ p[1] < p[2]
                      /\ \A j \in (p[1] + 1)..p[2] : ~far(p[1], j)
                      /\ buyers[p[1]].wallet # buyers[p[2]].wallet}
        earlier(p) == {q \in scanned : q[1] < p[1] \/ (q[1] = p[1] /\ q[2] < p[2])}
    IN  [k \in 1..Cardinality(scanned) |->
            LET p == CHOOSE q \in scanned : Cardinality(earlier(q)) = k - 1
            IN  pair_key(buyers[p[1]].wallet, buyers[p[2]].wallet)]

RECURSIVE co_occur_increments(_, _, _)
co_occur_increments(tokens, buys, block_delta_threshold) ==
    IF tokens = <<>> THEN <<>>
    ELSE token_pairs(sort_by_time(SelectSeq(buys,
                        LAMBDA b : b.token_address = Head(tokens))),
                     block_delta_threshold)
         \o co_occur_increments(Tail(tokens), buys, block_delta_threshold)

RECURSIVE Component(_, _)
Component(S, adjacency) ==
    LET grown == S \cup {v \in UNION adjacency : \E u \in S : {u, v} \in adjacency}
    IN  IF grown = S THEN S ELSE Component(grown, adjacency)

\* lines 190-211: the loop over the keys of adjacency.
RECURSIVE number_components(_, _, _, _, _)
number_components(order, adjacency, visited, cluster_id, clusters) ==
    IF order = <<>> THEN clusters
    ELSE IF Head(order) \in visited
    THEN number_components(Tail(order), adjacency, visited, cluster_id, clusters)
    ELSE LET component == Component({Head(order)}, adjacency)
         IN  IF Cardinality(component) >= 2
             THEN number_components(Tail(order), adjacency, visited \cup component,
                    cluster_id + 1,
                    [w \in DOMAIN clusters \cup component |->
                        IF w \in component THEN cluster_id ELSE clusters[w]])
             ELSE number_components(Tail(order), adjacency, visited \cup component,
                    cluster_id, clusters)

\* A co-occurrence matrix that takes one co-occurrence for a link.
detect_bot_clusters_any_pair(wallet_trade_map, block_delta_threshold, min_co_occurrences) ==
    LET buys == all_buys(wallet_trade_map)
        tokens == FirstSeen([k \in 1..Len(buys) |-> buys[k].token_address])
        linked == FirstSeen(co_occur_increments(tokens, buys, block_delta_threshold))
        order == FirstSeen([i \in 1..(2 * Len(linked)) |->
                              linked[(i + 1) \div 2][2 - (i % 2)]])
        adjacency == {{linked[k][1], linked[k][2]} : k \in 1..Len(linked)}
    IN  number_components(order, adjacency, {}, 0, <<>>)

detect_bot_clusters(wallet_trade_map, block_delta_threshold, min_co_occurrences) ==
    LET buys == all_buys(wallet_trade_map)
        tokens == FirstSeen([k \in 1..Len(buys) |-> buys[k].token_address])
        increments == co_occur_increments(tokens, buys, block_delta_threshold)
        co_occur(key) == Cardinality({i \in 1..Len(increments) : increments[i] = key})
        linked == SelectSeq(FirstSeen(increments),
                            LAMBDA key : co_occur(key) >= min_co_occurrences)
        order == FirstSeen([i \in 1..(2 * Len(linked)) |->
                              linked[(i + 1) \div 2][2 - (i % 2)]])
        adjacency == {{linked[k][1], linked[k][2]} : k \in 1..Len(linked)}
    IN  number_components(order, adjacency, {}, 0, <<>>)

\* orchestrator.py: run_cluster_detection: the trades of the last 24 hours,
\* grouped by wallet in the order the query returned them, and the UPDATE
\* that exiles every clustered address.
RecentTrades(table, t) ==
    SelectSeq(table, LAMBDA r : r.block_time >= (t - ClusterLookbackHours) * SecondsPerHour)

parsed_map(db_trades) ==
    LET addrs == FirstSeen([k \in 1..Len(db_trades) |-> db_trades[k].wallet_address])
    IN  [k \in 1..Len(addrs) |->
            [wallet |-> addrs[k],
             trades |-> SelectSeq(db_trades, LAMBDA r : r.wallet_address = addrs[k])]]

\* The UPDATE with a condition on the tier: archived wallets are left alone.
exile_clusters_unless_archived(table, clusters) ==
    [i \in 1..Len(table) |->
        IF table[i].address \in DOMAIN clusters /\ table[i].tier # ARCHIVED
        THEN [table[i] EXCEPT !.tier = EXILED, !.notes = "bot cluster detected"]
        ELSE table[i]]

exile_clusters(table, clusters) ==
    [i \in 1..Len(table) |->
        IF table[i].address \in DOMAIN clusters
        THEN [table[i] EXCEPT !.tier = EXILED, !.notes = "bot cluster detected"]
        ELSE table[i]]

\* ------------------------------------------------------------------------
\* The process (orchestrator.py): clock, seeding, loops, live handler
\* ------------------------------------------------------------------------
MaxTicks == 1
MaxErrors == 1
MaxEdges == 2
TickHours == PruneInactiveDays * HoursPerDay + 1

NothingCalled == call = <<>> /\ returned = <<>>
StoreEmpty == wallets = <<>> /\ edges = <<>> /\ trade_rows = <<>>
ProcessStarting ==
    now = 0 /\ ticks = 0 /\ errors = 0 /\ seeded = 0 /\ lastAlert = <<>>
LoopsAsleep ==
    /\ pcS = "sleep" /\ batch = <<>> /\ cur = NoScore
    /\ pcD = "sleep" /\ dRoots = <<>> /\ dSeen = {} /\ dEdge = <<>>

WebhookUnregistered ==
    /\ webhook_id = None /\ webhook_addresses = {} /\ sync = <<>> /\ wCycle = 0
NoLiveEvent ==
    live_txn = <<>> /\ trades_processed = 0 /\ alerts_sent = 0 /\ handler = <<>>
LoopsStarted ==
    /\ loop_at = [l \in Loops |-> "sleep"] /\ loop_iter = [l \in Loops |-> 0]
    /\ loop_raised = <<>>
CountersEmpty ==
    /\ hourly_trades = <<>> /\ hourly_alerts = <<>>
    /\ error_times = <<>> /\ health = <<>>

Seeded == seeded = Len(SEED_WALLETS)

\* The histories the transaction provider returns for a wallet: none, a
\* tier-1 record, a tier-2 record, a bot's record, a beginner's record.
FetchedHistories ==
    << <<>>,
       LongHistory(80, 80, 51, FALSE),
       LongHistory(50, 50, 51, FALSE),
       LongHistory(50, 50, 51, TRUE),
       LongHistory(49, 14, 50, FALSE) >>

\* orchestrator.py: WalletScore and BotAnalysis as the loop holds them.
ScoreOf(h) ==
    LET sc == compute_score_from_trades(h, DefaultMinTrades, BotScoreThreshold)
    IN  [win_rate |-> sc.win_rate, total_trades |-> sc.total_trades,
         winning_trades |-> sc.winning_trades, total_pnl_usd |-> sc.total_pnl_usd,
         bot_score |-> sc.bot_score, is_bot |-> sc.is_bot,
         recommended_tier |-> sc.recommended_tier]
FetchedScores == List([i \in 1..Len(FetchedHistories) |-> ScoreOf(FetchedHistories[i])])

\* Everything but the scorer's input and the call under check, as the
\* process starts.
SystemAtStart ==
    /\ history = <<>> /\ min_trades = DefaultMinTrades /\ score = NoScore
    /\ StoreEmpty /\ ProcessStarting /\ LoopsAsleep
    /\ tier1_max_wallets = DefaultTier1MaxWallets /\ WebhookUnregistered
    /\ NoLiveEvent /\ LoopsStarted /\ CountersEmpty

Init ==
    /\ history = <<>> /\ min_trades = DefaultMinTrades /\ score = NoScore
    /\ NothingCalled
    /\ StoreEmpty /\ ProcessStarting /\ LoopsAsleep
    /\ tier1_max_wallets = DefaultTier1MaxWallets /\ WebhookUnregistered
    /\ NoLiveEvent /\ LoopsStarted /\ CountersEmpty

\* run_agent: one seed wallet is ensured.
Seed ==
    /\ seeded < Len(SEED_WALLETS)
    /\ wallets' = ensure_wallet_exists(wallets, SEED_WALLETS[seeded + 1],
                                       "config_seed", now).wallets
    /\ seeded' = seeded + 1
    /\ UNCHANGED <<purevars, countervars, loopvars, webhookvars, livevars, edges,
                   trade_rows, now, ticks, errors, lastAlert, scoringvars,
                   discoveryvars>>

\* Time passes.
Tick ==
    /\ ticks < MaxTicks
    /\ now' = now + TickHours
    /\ ticks' = ticks + 1
    /\ UNCHANGED <<purevars, countervars, loopvars, webhookvars, livevars, storevars,
                   errors, seeded, lastAlert, scoringvars, discoveryvars>>

\* The events the webhook server hands to handle_live_transaction: the
\* first account of accountData with a balance change (None: there is
\* none) and the side of the swap.
LiveTxns == [account : UpstreamAddresses \cup {None}, side : {"buy", "sell"}]

\* handle_live_transaction returns early: no account, no Wallet record.
live_event_ignored_unless_tracked(table, account) ==
    IF account = None THEN TRUE
    ELSE RowsOf(table, account) = {}

\* The early return testing for archived instead of exiled.
live_event_ignored_if_archived(table, account) ==
    IF account = None THEN TRUE
    ELSE IF RowsOf(table, account) = {} THEN TRUE
    ELSE \E i \in RowsOf(table, account) : table[i].tier = ARCHIVED

\* handle_live_transaction returns early: no account, no Wallet record, or
\* an exiled wallet.
live_event_ignored(table, account) ==
    IF account = None THEN TRUE
    ELSE IF RowsOf(table, account) = {} THEN TRUE
    ELSE \E i \in RowsOf(table, account) : table[i].tier = EXILED

\* handle_live_transaction: no tracked wallet, or an exiled one: return.
LiveEventIgnored(txn) ==
    /\ Seeded
    /\ live_event_ignored(wallets, txn.account)
    /\ live_txn' = <<txn>>
    /\ UNCHANGED <<purevars, countervars, loopvars, storevars, procvars, scoringvars,
                   discoveryvars, webhookvars, trades_processed, alerts_sent, handler>>

\* handle_live_transaction for a tracked wallet: parse_enhanced_transaction
\* is not a name of the module, the call raises and the handler counts an
\* error; record_trade, the last_active update, send_alert and record_alert
\* are not reached.
LiveEventFails(txn) ==
    /\ Seeded
    /\ ~live_event_ignored(wallets, txn.account)
    /\ errors < MaxErrors
    /\ errors' = errors + 1
    /\ live_txn' = <<txn>>
    /\ UNCHANGED <<purevars, countervars, loopvars, storevars, now, ticks, seeded,
                   lastAlert, scoringvars, discoveryvars, webhookvars,
                   trades_processed, alerts_sent, handler>>

\* scoring_loop: the batch of wallets due for rescoring is read.
ScoringSelect ==
    /\ Seeded /\ pcS = "sleep"
    /\ \E b \in get_wallets_due_for_rescore(wallets, now, BatchLimit) :
          /\ batch' = b
          /\ pcS' = IF b = <<>> THEN "cluster" ELSE "fetch"
    /\ cur' = NoScore
    /\ UNCHANGED <<purevars, countervars, loopvars, webhookvars, livevars, storevars,
                   procvars, discoveryvars>>

AfterWallet == IF Len(batch) > 1 THEN "fetch" ELSE "cluster"

\* The notifications issued for every scored wallet.
tier_changed_or_not(sc, wallet) == TRUE

\* scoring_loop: the condition of the notifications: the recommended tier
\* is not the tier of the wallet as the batch read it.
tier_changed(sc, wallet) == sc.recommended_tier # wallet.tier

\* scoring_loop: the wallet's history is fetched and parsed.  No trades:
\* only last_scored moves.  Otherwise the score is computed and compared
\* with the tier read at selection.
ScoreFetch(i) ==
    /\ pcS = "fetch"
    /\ IF FetchedHistories[i] = <<>>
       THEN /\ wallets' = [k \in 1..Len(wallets) |->
                             IF wallets[k].address = Head(batch).address
                             THEN [wallets[k] EXCEPT !.last_scored = <<now>>]
                             ELSE wallets[k]]
            /\ batch' = Tail(batch)
            /\ pcS' = AfterWallet
            /\ cur' = NoScore
       ELSE /\ cur' = FetchedScores[i]
            /\ pcS' = IF tier_changed(FetchedScores[i], Head(batch))
                      THEN "notify_tier" ELSE "persist"
            /\ UNCHANGED <<wallets, batch>>
    /\ UNCHANGED <<purevars, countervars, loopvars, webhookvars, livevars, edges,
                   trade_rows, procvars, discoveryvars>>

\* A notification whose delivery failure makes the loop call it again.
after_notification_retries(delivered, next) ==
    IF delivered THEN next ELSE pcS

\* alerts.py: the senders return nothing and _tg_post swallows every
\* failure: the loop goes on to `next` whether the message was delivered or
\* not.
after_notification(delivered, next) == next

\* scoring_loop: send_tier_change_alert; a message goes out for a move to
\* tier 1 or tier 2 only, and is delivered or not.
NotifyTierChange(delivered) ==
    /\ pcS = "notify_tier"
    /\ lastAlert' = IF cur.recommended_tier \in {TIER1, TIER2}
                    THEN << [kind |-> "tier_change", address |-> Head(batch).address,
                             new_tier |-> cur.recommended_tier,
                             delivered |-> delivered] >>
                    ELSE lastAlert
    /\ pcS' = after_notification(delivered,
                  IF cur.recommended_tier = EXILED THEN "notify_exile" ELSE "persist")
    /\ UNCHANGED <<purevars, countervars, loopvars, webhookvars, livevars, storevars, now,
                   ticks, errors, seeded, batch, cur, discoveryvars>>

\* scoring_loop: send_bot_exile_alert, delivered or not.
NotifyBotExile(delivered) ==
    /\ pcS = "notify_exile"
    /\ lastAlert' = << [kind |-> "bot_exile", address |-> Head(batch).address,
                        new_tier |-> cur.recommended_tier,
                        delivered |-> delivered] >>
    /\ pcS' = after_notification(delivered, "persist")
    /\ UNCHANGED <<purevars, countervars, loopvars, webhookvars, livevars, storevars, now,
                   ticks, errors, seeded, batch, cur, discoveryvars>>

\* scoring_loop: persist_score writes metrics, tier and last_scored.
PersistScore ==
    /\ pcS = "persist"
    /\ wallets' = persist_score(wallets, Head(batch).address, cur, now)
    /\ batch' = Tail(batch)
    /\ cur' = NoScore
    /\ pcS' = AfterWallet
    /\ UNCHANGED <<purevars, countervars, loopvars, webhookvars, livevars, edges,
                   trade_rows, procvars, discoveryvars>>

\* An exception of a wallet's turn caught by the try around the whole
\* batch: the rest of the batch is abandoned.
on_wallet_error_leaves_batch(b) == [batch |-> <<>>, pcS |-> "sleep"]

\* The except clause inside the for loop: the loop goes on with the next
\* wallet of the batch.
on_wallet_error(b) ==
    [batch |-> Tail(b), pcS |-> IF Len(b) > 1 THEN "fetch" ELSE "cluster"]

\* scoring_loop: a statement of the wallet's turn raises (the fetch, the
\* parser, the scorer, a notification, the persistence); the error is
\* counted and the loop goes on with the next wallet.
ScoreWalletFails ==
    /\ pcS \in {"fetch", "notify_tier", "notify_exile", "persist"}
    /\ errors < MaxErrors
    /\ errors' = errors + 1
    /\ batch' = on_wallet_error(batch).batch
    /\ cur' = NoScore
    /\ pcS' = on_wallet_error(batch).pcS
    /\ UNCHANGED <<purevars, countervars, loopvars, webhookvars, livevars, storevars, now,
                   ticks, seeded, lastAlert, discoveryvars>>

\* scoring_loop: run_cluster_detection closes the pass.
ClusterDetection ==
    /\ pcS = "cluster"
    /\ wallets' = exile_clusters(wallets,
                    detect_bot_clusters(parsed_map(RecentTrades(trade_rows, now)),
                                        BlockDeltaThreshold, MinCoOccurrences))
    /\ pcS' = "sleep"
    /\ UNCHANGED <<purevars, countervars, loopvars, webhookvars, livevars, edges,
                   trade_rows, procvars, batch, cur, discoveryvars>>

\* health_loop: the pruning statement.
HealthPrune ==
    /\ Seeded
    /\ wallets' = prune_inactive(wallets, now)
    /\ UNCHANGED <<purevars, countervars, loopvars, webhookvars, livevars, edges,
                   trade_rows, procvars, scoringvars, discoveryvars>>

\* run_discovery_cycle: the active wallets, most recently active first;
\* all of them are already seen, the first RootLimit are expanded.
ActiveWallets(table) ==
    LET act == {i \in 1..Len(table) : table[i].tier \in {TIER1, TIER2, CANDIDATE}}
        desc == [i \in act |-> 0 - table[i].last_active]
    IN  {[k \in 1..Min(ActiveLimit, Len(f)) |-> table[f[k]].address] :
            f \in Ordered(act, desc)}

DiscoveryStart ==
    /\ Seeded /\ pcD = "sleep"
    /\ \E active \in ActiveWallets(wallets) :
          /\ dRoots' = Take(active, RootLimit)
          /\ dSeen' = {active[k] : k \in 1..Len(active)}
          /\ pcD' = IF active = <<>> THEN "birdeye" ELSE "expand"
    /\ dEdge' = <<>>
    /\ UNCHANGED <<purevars, countervars, loopvars, webhookvars, livevars, storevars,
                   procvars, scoringvars>>

\* discover_from_wallet: a co-trader of the root on `token` that is neither
\* seen nor the root and has a well-formed address is ensured.
DiscoverCoTrader(co, token) ==
    /\ pcD = "expand" /\ dRoots # <<>>
    /\ co \notin dSeen /\ co # Head(dRoots)
    /\ AddressLen(co) >= MinAddressLen /\ AddressLen(co) <= MaxAddressLen
    /\ dSeen' = dSeen \cup {co}
    /\ wallets' = ensure_wallet_exists(wallets, co, Head(dRoots), now).wallets
    /\ dEdge' = << [source |-> Head(dRoots), target |-> co, shared_token |-> token] >>
    /\ pcD' = "edge"
    /\ UNCHANGED <<purevars, countervars, loopvars, webhookvars, livevars, edges,
                   trade_rows, procvars, scoringvars, dRoots>>

\* discover_from_wallet: record_edge for the co-trader just ensured.
DiscoverRecordEdge ==
    /\ pcD = "edge"
    /\ Len(edges) < MaxEdges
    /\ edges' = record_edge(edges, dEdge[1].source, dEdge[1].target, dEdge[1].shared_token)
    /\ dEdge' = <<>>
    /\ pcD' = "expand"
    /\ UNCHANGED <<purevars, countervars, loopvars, webhookvars, livevars, wallets,
                   trade_rows, procvars, scoringvars, dRoots, dSeen>>

\* run_discovery_cycle: the next root.
DiscoverNextRoot ==
    /\ pcD = "expand" /\ dRoots # <<>>
    /\ dRoots' = Tail(dRoots)
    /\ pcD' = IF Len(dRoots) > 1 THEN "expand"
              ELSE IF BirdeyeConfigured THEN "birdeye" ELSE "sleep"
    /\ UNCHANGED <<purevars, countervars, loopvars, webhookvars, livevars, storevars,
                   procvars, scoringvars, dSeen, dEdge>>

\* fetch_birdeye_top_traders: an address of the leaderboard is ensured.
BirdeyeInsert(a) ==
    /\ pcD = "birdeye"
    /\ wallets' = ensure_wallet_exists(wallets, a, "birdeye_leaderboard", now).wallets
    /\ UNCHANGED <<purevars, countervars, loopvars, webhookvars, livevars, edges,
                   trade_rows, procvars, scoringvars, discoveryvars>>

\* discovery_loop: the cycle is over.
DiscoveryDone ==
    /\ pcD = "birdeye"
    /\ pcD' = "sleep"
    /\ dSeen' = {}
    /\ UNCHANGED <<purevars, countervars, loopvars, webhookvars, livevars, storevars,
                   procvars, scoringvars, dRoots, dEdge>>

Next ==
    \/ Seed
    \/ Tick
    \/ ScoringSelect
    \/ \E i \in 1..Len(FetchedHistories) : ScoreFetch(i)
    \/ \E delivered \in BOOLEAN : NotifyTierChange(delivered)
    \/ \E delivered \in BOOLEAN : NotifyBotExile(delivered)
    \/ PersistScore
    \/ ScoreWalletFails
    \/ ClusterDetection
    \/ HealthPrune
    \/ DiscoveryStart
    \/ \E co \in UpstreamAddresses, token \in Tokens : DiscoverCoTrader(co, token)
    \/ DiscoverRecordEdge
    \/ DiscoverNextRoot
    \/ \E a \in UpstreamAddresses : BirdeyeInsert(a)
    \/ DiscoveryDone

Spec == Init /\ [][Next]_vars

\* ------------------------------------------------------------------------
\* webhook_management_loop beside the loops that write the tiers
\* ------------------------------------------------------------------------
MaxTier1Cap == 1

\* select(Wallet.address).where(tier == TIER1) without the LIMIT.
select_tier1_unlimited(table, limit) ==
    {{table[i].address : i \in {k \in 1..Len(table) : table[k].tier = TIER1}}}

\* select(Wallet.address).where(tier == TIER1).limit(tier1_max_wallets): the
\* address sets the query can return; without ORDER BY any `limit` of the
\* tier-1 rows.
select_tier1(table, limit) ==
    LET rows == {i \in 1..Len(table) : table[i].tier = TIER1}
    IN  {{table[i].address : i \in R} :
            R \in {Q \in SUBSET rows : Cardinality(Q) = Min(limit, Cardinality(rows))}}

\* helius.create_webhook: None on any failure, else the body of the answer,
\* with or without a webhookID.
CreateResponses == {<<>>, << [webhookID |-> "wh"] >>, << [webhookID |-> None] >>}
\* helius.edit_webhook: success or not.
EditResponses == {<<TRUE>>, <<FALSE>>}

NoCall == [op |-> None, addresses |-> {}]

\* The body of the loop without the comparison with _webhook_addresses.
webhook_cycle_always_calls(id, registered, tier1_addresses, resp) ==
    IF id = None
    THEN IF resp \in CreateResponses \ {<<>>}
         THEN [webhook_id |-> resp[1].webhookID, webhook_addresses |-> tier1_addresses,
               call |-> [op |-> "create", addresses |-> tier1_addresses]]
         ELSE [webhook_id |-> id, webhook_addresses |-> registered,
               call |-> [op |-> "create", addresses |-> tier1_addresses]]
    ELSE IF resp = <<TRUE>>
         THEN [webhook_id |-> id, webhook_addresses |-> tier1_addresses,
               call |-> [op |-> "edit", addresses |-> tier1_addresses]]
         ELSE [webhook_id |-> id, webhook_addresses |-> registered,
               call |-> [op |-> "edit", addresses |-> tier1_addresses]]

\* The body of the loop with the globals assigned whatever the call answers.
webhook_cycle_forgets_failure(id, registered, tier1_addresses, resp) ==
    IF tier1_addresses = registered
    THEN [webhook_id |-> id, webhook_addresses |-> registered, call |-> NoCall]
    ELSE [webhook_id |-> IF id = None /\ resp # <<>> THEN resp[1].webhookID ELSE id,
          webhook_addresses |-> tier1_addresses,
          call |-> [op |-> IF id = None THEN "create" ELSE "edit",
                    addresses |-> tier1_addresses]]

\* The body of the loop calling create whether or not an identifier is
\* remembered.
webhook_cycle_recreates(id, registered, tier1_addresses, resp) ==
    IF tier1_addresses = registered
    THEN [webhook_id |-> id, webhook_addresses |-> registered, call |-> NoCall]
    ELSE [webhook_id |-> IF id = None /\ resp # <<>> THEN resp[1].webhookID ELSE id,
          webhook_addresses |-> IF (IF id = None THEN resp = <<>> ELSE resp = <<FALSE>>)
                                THEN registered ELSE tier1_addresses,
          call |-> [op |-> "create", addresses |-> tier1_addresses]]

\* The body of the loop making its call and assigning neither global.
webhook_cycle_drops_answer(id, registered, tier1_addresses, resp) ==
    IF tier1_addresses = registered
    THEN [webhook_id |-> id, webhook_addresses |-> registered, call |-> NoCall]
    ELSE [webhook_id |-> id, webhook_addresses |-> registered,
          call |-> [op |-> IF id = None THEN "create" ELSE "edit",
                    addresses |-> tier1_addresses]]

\* The body of the loop after the query: nothing when the set read equals
\* _webhook_addresses; else create (no _webhook_id) or edit, and the globals
\* move only when the call answers.
webhook_cycle(id, registered, tier1_addresses, resp) ==
    IF tier1_addresses = registered
    THEN [webhook_id |-> id, webhook_addresses |-> registered, call |-> NoCall]
    ELSE webhook_cycle_always_calls(id, registered, tier1_addresses, resp)

\* The answers the call of this cycle can get.
Responses(id) == IF id = None THEN CreateResponses ELSE EditResponses

\* webhook_management_loop: one cycle.
WebhookSync ==
    /\ Seeded
    /\ \E tier1_addresses \in select_tier1(wallets, tier1_max_wallets),
          resp \in Responses(webhook_id) :
          LET r == webhook_cycle(webhook_id, webhook_addresses, tier1_addresses, resp)
          IN  /\ webhook_id' = r.webhook_id
              /\ webhook_addresses' = r.webhook_addresses
              /\ sync' = << [tier1_addresses |-> tier1_addresses, call |-> r.call,
                             resp |-> IF r.call = NoCall THEN <<>> ELSE resp] >>
    /\ wCycle' = 1 - wCycle
    /\ UNCHANGED <<purevars, countervars, loopvars, storevars, procvars, scoringvars,
                   discoveryvars, tier1_max_wallets, livevars>>

\* webhook_management_loop: the query raises; the error is counted.
WebhookSyncFails ==
    /\ Seeded
    /\ errors < MaxErrors
    /\ errors' = errors + 1
    /\ sync' = <<>>
    /\ wCycle' = 1 - wCycle
    /\ UNCHANGED <<purevars, countervars, loopvars, storevars, now, ticks, seeded,
                   lastAlert, scoringvars, discoveryvars, tier1_max_wallets,
                   webhook_id, webhook_addresses, livevars>>

InitSync ==
    /\ history = <<>> /\ min_trades = DefaultMinTrades /\ score = NoScore
    /\ NothingCalled
    /\ StoreEmpty /\ ProcessStarting /\ LoopsAsleep
    /\ tier1_max_wallets \in {MaxTier1Cap, DefaultTier1MaxWallets}
    /\ WebhookUnregistered
    /\ NoLiveEvent /\ LoopsStarted /\ CountersEmpty

NextSync ==
    \/ Seed
    \/ ScoringSelect
    \/ \E i \in 1..Len(FetchedHistories) : ScoreFetch(i)
    \/ \E delivered \in BOOLEAN : NotifyTierChange(delivered)
    \/ \E delivered \in BOOLEAN : NotifyBotExile(delivered)
    \/ PersistScore
    \/ ClusterDetection
    \/ DiscoveryStart
    \/ DiscoverNextRoot
    \/ \E a \in UpstreamAddresses : BirdeyeInsert(a)
    \/ DiscoveryDone
    \/ WebhookSync
    \/ WebhookSyncFails

SpecSync == InitSync /\ [][NextSync]_vars

\* The same loops with the schedule of the program: main() seeds the wallets
\* before the loops start, and the webhook loop is a `while True` whose
\* cycles are separated by a sleep of 300 s, so a cycle always comes.
SpecConverge ==
    InitSync /\ [][NextSync]_vars /\ WF_vars(Seed) /\ WF_vars(WebhookSync)

\* ------------------------------------------------------------------------
\* The live event handler beside the scoring loop
\* ------------------------------------------------------------------------
NextLive ==
    \/ Seed
    \/ \E txn \in LiveTxns : LiveEventIgnored(txn)
    \/ \E txn \in LiveTxns : LiveEventFails(txn)
    \/ ScoringSelect
    \/ \E i \in 1..Len(FetchedHistories) : ScoreFetch(i)
    \/ \E delivered \in BOOLEAN : NotifyTierChange(delivered)
    \/ \E delivered \in BOOLEAN : NotifyBotExile(delivered)
    \/ PersistScore
    \/ ClusterDetection

SpecLive == Init /\ [][NextLive]_vars

\* ------------------------------------------------------------------------
\* The four loops of run_agent as while True / try / except / sleep
\* ------------------------------------------------------------------------
\* An exception that leaves the loop's coroutine: asyncio.gather hands it to
\* run_agent and the other loops are cancelled with it.
loop_after_exception_ends(at, l) == [k \in Loops |-> "ended"]

\* except Exception in the while body: the loop goes to its sleep.
loop_after_exception(at, l) == [at EXCEPT ![l] = "sleep"]

\* The sleep of loop l is over: while True starts the next iteration.
LoopIterates(l) ==
    /\ loop_at[l] = "sleep"
    /\ loop_at' = [loop_at EXCEPT ![l] = "body"]
    /\ loop_iter' = [loop_iter EXCEPT ![l] = 1 - loop_iter[l]]
    /\ UNCHANGED <<purevars, countervars, storevars, procvars, scoringvars, discoveryvars,
                   webhookvars, livevars, loop_raised>>

\* The body of the try of loop l runs to its end.
LoopBodyReturns(l) ==
    /\ loop_at[l] = "body"
    /\ loop_at' = [loop_at EXCEPT ![l] = "sleep"]
    /\ UNCHANGED <<purevars, countervars, storevars, procvars, scoringvars, discoveryvars,
                   webhookvars, livevars, loop_iter, loop_raised>>

\* A statement of the body of loop l raises: the error is counted.
LoopBodyRaises(l) ==
    /\ loop_at[l] = "body"
    /\ errors < MaxErrors
    /\ errors' = errors + 1
    /\ loop_at' = loop_after_exception(loop_at, l)
    /\ loop_raised' = <<l>>
    /\ UNCHANGED <<purevars, countervars, storevars, now, ticks, seeded, lastAlert,
                   scoringvars, discoveryvars, webhookvars, livevars, loop_iter>>

NextLoops ==
    \/ \E l \in Loops : LoopIterates(l)
    \/ \E l \in Loops : LoopBodyReturns(l)
    \/ \E l \in Loops : LoopBodyRaises(l)

\* The event loop runs every coroutine that can run: a sleep that is over
\* returns, a body that is running comes to its end or raises.
SpecLoops ==
    /\ Init /\ [][NextLoops]_vars
    /\ \A l \in Loops :
          /\ WF_vars(LoopIterates(l))
          /\ WF_vars(LoopBodyReturns(l) \/ LoopBodyRaises(l))

\* ------------------------------------------------------------------------
\* scorer.py: persist_trades, as a function of the trades table
\* ------------------------------------------------------------------------
MaxSignature == 2

\* The row the INSERT of persist_trades makes of a ParsedTrade.
TradeRow(wallet_address, t) ==
    [wallet_address |-> wallet_address, signature |-> t.signature,
     token_address |-> t.token_address, side |-> t.side,
     amount_sol |-> t.amount_sol, amount_usd |-> t.amount_usd,
     block_time |-> t.block_time, used_jito |-> t.used_jito,
     blocks_after_mint |-> t.blocks_after_mint]

\* The loop of persist_trades with a plain INSERT.
RECURSIVE persist_trades_always_inserts(_, _, _)
persist_trades_always_inserts(table, wallet_address, trades) ==
    IF trades = <<>> THEN table
    ELSE persist_trades_always_inserts(
             Append(table, TradeRow(wallet_address, Head(trades))),
             wallet_address, Tail(trades))

\* scorer.py: persist_trades: one INSERT ... ON CONFLICT (signature) DO
\* NOTHING per trade, in the order of the list; the unique index on
\* trades.signature makes the INSERT conflict when a row of that signature
\* exists, whatever its other columns.
RECURSIVE persist_trades(_, _, _)
persist_trades(table, wallet_address, trades) ==
    IF trades = <<>> THEN table
    ELSE persist_trades(
             IF \E i \in 1..Len(table) : table[i].signature = Head(trades).signature
             THEN table
             ELSE Append(table, TradeRow(wallet_address, Head(trades))),
             wallet_address, Tail(trades))

\* The parsed trades handed to persist_trades: lists of one or two swaps
\* with signatures 1..MaxSignature, the same signature coming with
\* different amounts.
ParsedSwaps ==
    {Trade(sig, "T", "buy", 1, usd, 0, <<>>) :
        sig \in 1..MaxSignature, usd \in {800, 1200}}
TradeBatches ==
    {<<a>> : a \in ParsedSwaps} \cup {<<a, b>> : a \in ParsedSwaps, b \in ParsedSwaps}

InitTrades == Init

PersistTrades(wallet_address, parsed) ==
    /\ trade_rows' = persist_trades(trade_rows, wallet_address, parsed)
    /\ history' = parsed
    /\ UNCHANGED <<min_trades, score, call, returned, countervars, wallets, edges,
                   procvars, scoringvars, discoveryvars, webhookvars, livevars,
                   loopvars>>

NextTrades ==
    \E wallet_address \in Addresses, parsed \in TradeBatches :
        PersistTrades(wallet_address, parsed)

SpecTrades == InitTrades /\ [][NextTrades]_vars

\* ------------------------------------------------------------------------
\* Specification of the scorer as a function of its input
\* ------------------------------------------------------------------------
InitScore ==
    /\ history \in Histories
    /\ min_trades \in MinTradesValues
    /\ score = NoScore
    /\ NothingCalled
    /\ StoreEmpty /\ ProcessStarting /\ LoopsAsleep
    /\ tier1_max_wallets = DefaultTier1MaxWallets /\ WebhookUnregistered
    /\ NoLiveEvent /\ LoopsStarted /\ CountersEmpty

Score ==
    /\ score = NoScore
    /\ score' = compute_score_from_trades(history, min_trades, BotScoreThreshold)
    /\ UNCHANGED <<history, min_trades, call, returned, sysvars>>

NextScore == Score

SpecScore == InitScore /\ [][NextScore]_vars

Scored == score # NoScore

\* ------------------------------------------------------------------------
\* scorer.py: get_wallets_due_for_rescore, as a function of the table
\* ------------------------------------------------------------------------
MaxScoredHour == 2

\* Tables of three wallets of any tier, never scored or scored at the hours
\* 0..MaxScoredHour; the query runs at hour MaxScoredHour + 1, so that a
\* wallet scored at MaxScoredHour is not due.
DueRows(address) ==
    {[NewWallet(address, "config_seed", 0) EXCEPT !.tier = tier, !.last_scored = ls] :
        tier \in {CANDIDATE, TIER1, EXILED, ARCHIVED},
        ls \in {<<>>} \cup {<<h>> : h \in 0..MaxScoredHour}}
DueTables == {<<a, b, c>> : a \in DueRows("A"), b \in DueRows("B"), c \in DueRows("x")}
DueCalls ==
    [table : DueTables, t : {MaxScoredHour + 1}, limit : {1, 2, BatchLimit}]

InitDue == SystemAtStart /\ call \in DueCalls /\ returned = <<>>

\* One of the lists the query can return.
DueQuery ==
    /\ returned = <<>>
    /\ \E b \in get_wallets_due_for_rescore(call.table, call.t, call.limit) :
          returned' = <<b>>
    /\ UNCHANGED <<history, min_trades, score, call, sysvars>>

NextDue == DueQuery

SpecDue == InitDue /\ [][NextDue]_vars

\* ------------------------------------------------------------------------
\* bot_detector.py: detect_bot_clusters, as a function of the mapping
\* ------------------------------------------------------------------------
MaxWalletTrades == 2

BoundedSeq(S, n) == UNION {[1..k -> S] : k \in 0..n}
Buy(token_address, block_time) ==
    [token_address |-> token_address, side |-> "buy", block_time |-> block_time]

\* Three wallets with up to MaxWalletTrades trades each: buys of one token
\* at 0, 2 and 3 seconds (2.0 seconds is the limit of a co-occurrence) and
\* a sell.
ClusterTrades ==
    {Buy("T1", 0), Buy("T1", 2), Buy("T1", 3),
     [token_address |-> "T1", side |-> "sell", block_time |-> 0]}
SmallMaps(n) ==
    {<<[wallet |-> "A", trades |-> a], [wallet |-> "B", trades |-> b],
       [wallet |-> "x", trades |-> c]>> :
        a \in BoundedSeq(ClusterTrades, n),
        b \in BoundedSeq(ClusterTrades, n),
        c \in BoundedSeq(ClusterTrades, n)}

\* Two rings of two wallets, each ring buying its own token twice within a
\* second, the wallets and each wallet's trades in every order.
RingTrades(token_address) ==
    {<<Buy(token_address, 0), Buy(token_address, 1)>>,
     <<Buy(token_address, 1), Buy(token_address, 0)>>}
RingToken(w) == IF w \in {"A", "B"} THEN "T1" ELSE "T2"
RingMaps ==
    {[k \in 1..4 |-> [wallet |-> order[k], trades |-> t[order[k]]]] :
        order \in {o \in [1..4 -> {"A", "B", "C", "D"}] :
                     \A i, j \in 1..4 : i # j => o[i] # o[j]},
        t \in {f \in [{"A", "B", "C", "D"} -> RingTrades("T1") \cup RingTrades("T2")] :
                 \A w \in {"A", "B", "C", "D"} : f[w] \in RingTrades(RingToken(w))}}

ClusterCalls(n) ==
    [wallet_trade_map : SmallMaps(n), block_delta_threshold : {BlockDeltaThreshold},
     min_co_occurrences : {2}]
    \cup
    [wallet_trade_map : RingMaps, block_delta_threshold : {BlockDeltaThreshold},
     min_co_occurrences : {MinCoOccurrences}]

InitClusters == SystemAtStart /\ call \in ClusterCalls(MaxWalletTrades) /\ returned = <<>>

DetectClusters ==
    /\ returned = <<>>
    /\ returned' = <<detect_bot_clusters(call.wallet_trade_map,
                        call.block_delta_threshold, call.min_co_occurrences)>>
    /\ UNCHANGED <<history, min_trades, score, call, sysvars>>

\* The same mapping with two neighbouring wallets, or two neighbouring
\* trades of one wallet, exchanged; every permutation is a chain of these.
Swapped(seq, i) ==
    [k \in 1..Len(seq) |->
        IF k = i THEN seq[i + 1] ELSE IF k = i + 1 THEN seq[i] ELSE seq[k]]
Reordered(wallet_trade_map) ==
    {Swapped(wallet_trade_map, i) : i \in 1..(Len(wallet_trade_map) - 1)}
    \cup
    UNION {{[wallet_trade_map EXCEPT ![i].trades = Swapped(@, j)] :
                j \in 1..(Len(wallet_trade_map[i].trades) - 1)} :
            i \in 1..Len(wallet_trade_map)}

\* A second call, on a reordered mapping.
DetectReordered ==
    /\ Len(returned) = 1
    /\ \E m \in Reordered(call.wallet_trade_map) :
          /\ call' = [call EXCEPT !.wallet_trade_map = m]
          /\ returned' = Append(returned,
                detect_bot_clusters(m, call.block_delta_threshold,
                                    call.min_co_occurrences))
    /\ UNCHANGED <<history, min_trades, score, sysvars>>

NextClusters == DetectClusters \/ DetectReordered

SpecClusters == InitClusters /\ [][NextClusters]_vars

\* ------------------------------------------------------------------------
\* orchestrator.py: run_cluster_detection, as a function of the store
\* ------------------------------------------------------------------------
ClusterRunHour == ClusterLookbackHours + 1

\* A wallet's rows in the trades table: none, two buys of one token inside
\* the lookback window, or the same two buys before it.
TradePair(wallet_address, first_second) ==
    <<[wallet_address |-> wallet_address, signature |-> 1,
       token_address |-> "T1", side |-> "buy", amount_sol |-> 8, amount_usd |-> 8,
       block_time |-> first_second, used_jito |-> FALSE, blocks_after_mint |-> 0],
      [wallet_address |-> wallet_address, signature |-> 2,
       token_address |-> "T1", side |-> "buy", amount_sol |-> 8, amount_usd |-> 8,
       block_time |-> first_second + 1, used_jito |-> FALSE, blocks_after_mint |-> 0]>>
TradesOfWallet(wallet_address) ==
    {<<>>, TradePair(wallet_address, 0),
     TradePair(wallet_address, (ClusterRunHour - ClusterLookbackHours) * SecondsPerHour)}
TradeTables ==
    {a \o b \o c : a \in TradesOfWallet("A"), b \in TradesOfWallet("B"),
                   c \in TradesOfWallet("x")}

\* Wallets A and B tracked in any tier, and the third address tracked or not.
TieredRows(address) ==
    {[NewWallet(address, "config_seed", 0) EXCEPT !.tier = tier] :
        tier \in {TIER1, TIER2, CANDIDATE, EXILED, ARCHIVED}}
ClusterRunTables ==
    {<<a, b>> \o c : a \in TieredRows("A"), b \in TieredRows("B"),
                     c \in {<<>>} \cup {<<r>> : r \in TieredRows("x")}}

\* The scoring loop has finished a batch and is about to run the detection.
InitExile ==
    /\ history = <<>> /\ min_trades = DefaultMinTrades /\ score = NoScore
    /\ NothingCalled
    /\ wallets \in ClusterRunTables /\ edges = <<>> /\ trade_rows \in TradeTables
    /\ now = ClusterRunHour /\ ticks = 0 /\ errors = 0
    /\ seeded = Len(SEED_WALLETS) /\ lastAlert = <<>>
    /\ pcS = "cluster" /\ batch = <<>> /\ cur = NoScore
    /\ pcD = "sleep" /\ dRoots = <<>> /\ dSeen = {} /\ dEdge = <<>>
    /\ tier1_max_wallets = DefaultTier1MaxWallets /\ WebhookUnregistered
    /\ NoLiveEvent /\ LoopsStarted /\ CountersEmpty

\* run_cluster_detection raises inside its try: the exception is logged,
\* the session closes without commit and the loop goes to sleep.
ClusterDetectionFails ==
    /\ pcS = "cluster"
    /\ pcS' = "sleep"
    /\ UNCHANGED <<purevars, countervars, loopvars, webhookvars, livevars, storevars,
                   procvars, batch, cur, discoveryvars>>

NextExile == ClusterDetection \/ ClusterDetectionFails

SpecExile == InitExile /\ [][NextExile]_vars

\* ------------------------------------------------------------------------
\* bot_detector.py: analyse_wallet_for_bot, as a function of the history
\* ------------------------------------------------------------------------
\* Histories of n trades, buys of one token followed by one sell of another
\* token, one trade every gap hours: all through Jito bundles or none,
\* bought bam blocks after the mint (or unknown), of one size or of two.
BotHistory(n, jito, bam, gap, uniform) ==
    [i \in 1..n |->
        [Trade(i, IF i < n THEN "T" ELSE "U", IF i < n THEN "buy" ELSE "sell",
               IF uniform THEN 1 ELSE 1 + 2 * (i % 2), 800,
               (i - 1) * gap * 3600, bam)
         EXCEPT !.used_jito = jito]]
BotHistories ==
    {<<>>} \cup
    {BotHistory(n, jito, bam, gap, uniform) :
        n \in {1, 9, 10, 29, 30}, jito \in BOOLEAN,
        bam \in {<<>>, <<0>>, <<10>>, <<40>>}, gap \in {1, 3}, uniform \in BOOLEAN}
\* The thresholds that can be configured: the default, and values at or
\* below the score of a wallet without data and above the default.
BotScoreThresholds == {0, 30, 50, BotScoreThreshold, 60}
BotCalls ==
    [trades : BotHistories, funder_address : {None},
     bot_score_threshold : BotScoreThresholds, min_trades : {0, DefaultMinTrades}]

InitBot == SystemAtStart /\ call \in BotCalls /\ returned = <<>>

AnalyseWallet ==
    /\ returned = <<>>
    /\ returned' = <<analyse_wallet_for_bot(call.trades, call.funder_address,
                                             call.bot_score_threshold)>>
    /\ UNCHANGED <<history, min_trades, score, call, sysvars>>

\* scorer.py: compute_score_from_trades on the same history: its tier.
RecommendWallet ==
    /\ Len(returned) = 1
    /\ returned' = Append(returned,
          compute_score_from_trades(call.trades, call.min_trades,
                                    call.bot_score_threshold).recommended_tier)
    /\ UNCHANGED <<history, min_trades, score, call, sysvars>>

NextBot == AnalyseWallet \/ RecommendWallet

SpecBot == InitBot /\ [][NextBot]_vars

\* ------------------------------------------------------------------------
\* parser.py: _parse_via_token_transfers, as a function of the event
\* ------------------------------------------------------------------------
SOL_MINT == "So11111111111111111111111111111111111111112"
USDC_MINT == "EPjFWdd5AufqSSqeM2qN1xzybapC8G4wEGGkZwyTDt1v"
USDT_MINT == "Es9vMFrzaCERmJfrF4H2FYD4KCoNkY11McCe8BenwNYB"
STABLE_MINTS == {USDC_MINT, USDT_MINT}
LamportsPerSol == 1000000000
SolUsdRate == 150

is_base(mint) == mint \in {SOL_MINT, ""} \/ mint \in STABLE_MINTS

\* lines 76-81: the change of the first accountData entry of the wallet.
native_change_of(txn, wallet_address) ==
    LET own == SelectSeq(txn.accountData, LAMBDA acc : acc.account = wallet_address)
    IN  IF own = <<>> THEN 0 ELSE own[1].nativeBalanceChange

\* lines 90-95 and 118-122: SOL from the native change, else from the last
\* stablecoin transfer of the other side at the fixed rate.
sol_amount(native_moved, other_side) ==
    LET stables == SelectSeq(other_side, LAMBDA t : t.mint \in STABLE_MINTS)
    IN  IF native_moved > 0 THEN native_moved \div LamportsPerSol
        ELSE IF stables = <<>> THEN 0
        ELSE stables[Len(stables)].tokenAmount \div SolUsdRate

\* The results the function can return for an event: <<>> for None, or
\* <<trade>>.  sent_mints and received_mints are Python sets of strings and
\* traded_tokens_*[0] is the first mint in the set's iteration order, which
\* follows the string hashes of the running process, not the order of the
\* transfers: any of the non-base mints.  Of the ParsedTrade the side, the
\* token and the amounts are kept.
parse_via_token_transfers(txn, wallet_address) ==
    LET transfers == txn.tokenTransfers
        sent == SelectSeq(transfers, LAMBDA t : t.fromUserAccount = wallet_address)
        received == SelectSeq(transfers, LAMBDA t : t.toUserAccount = wallet_address)
        sent_mints == {sent[i].mint : i \in 1..Len(sent)}
        received_mints == {received[i].mint : i \in 1..Len(received)}
        traded_tokens_sent == {m \in sent_mints : ~is_base(m)}
        traded_tokens_received == {m \in received_mints : ~is_base(m)}
        native_change == native_change_of(txn, wallet_address)
        trade(side, token_mint, sol) ==
            [side |-> side, token_address |-> token_mint,
             amount_sol |-> sol, amount_usd |-> sol * SolUsdRate]
    IN  IF transfers = <<>> \/ (sent = <<>> /\ received = <<>>) THEN {<<>>}
        ELSE IF traded_tokens_received # {}
        THEN {<<trade("buy", token_mint, sol_amount(-native_change, sent))>> :
                token_mint \in traded_tokens_received}
        ELSE IF traded_tokens_sent # {}
        THEN {<<trade("sell", token_mint, sol_amount(native_change, received))>> :
                token_mint \in traded_tokens_sent}
        ELSE {<<>>}

\* Events of up to MaxTransfers transfers between the wallet and another
\* account, of two tokens, the native coin, a stablecoin or no mint, with
\* the wallet's native balance falling, rising, unchanged or not reported.
MaxTransfers == 2
EventTransfers ==
    [fromUserAccount : {"A", "x"}, toUserAccount : {"A", "x"},
     mint : {"M1", "M2", SOL_MINT, USDC_MINT, ""}, tokenAmount : {SolUsdRate}]
EventAccountData ==
    {<<>>} \cup
    {<<[account |-> "A", nativeBalanceChange |-> n * LamportsPerSol]>> : n \in {-1, 0, 1}}
    \cup {<<[account |-> "x", nativeBalanceChange |-> LamportsPerSol],
            [account |-> "A", nativeBalanceChange |-> -LamportsPerSol]>>}
ParseCalls(n) ==
    [txn : [tokenTransfers : BoundedSeq(EventTransfers, n), accountData : EventAccountData],
     wallet_address : {"A"}]

InitParse == SystemAtStart /\ call \in ParseCalls(MaxTransfers) /\ returned = <<>>

\* The event is normalized, and normalized again, possibly by another
\* process (the history of a wallet is fetched and parsed at every rescoring).
ParseTokenTransfers ==
    /\ Len(returned) < 2
    /\ \E r \in parse_via_token_transfers(call.txn, call.wallet_address) :
          returned' = Append(returned, r)
    /\ UNCHANGED <<history, min_trades, score, call, sysvars>>

NextParse == ParseTokenTransfers

SpecParse == InitParse /\ [][NextParse]_vars

\* ------------------------------------------------------------------------
\* The writers of the wallets table together: the live handler, the
\* webhook loop, the scoring loop with cluster detection, the health loop
\* ------------------------------------------------------------------------
NextWriters ==
    \/ NextLive
    \/ ScoreWalletFails
    \/ WebhookSync
    \/ WebhookSyncFails
    \/ Tick
    \/ HealthPrune

SpecWriters == Init /\ [][NextWriters]_vars

\* ------------------------------------------------------------------------
\* orchestrator.py: class Counters and the figures health_loop reads
\* ------------------------------------------------------------------------
MaxRecords == 2
MaxCounterHours == 3
WindowHours == 1

\* Counters._trim: entries older than one hour are dropped from the left.
RECURSIVE trim(_, _)
trim(q, t) ==
    IF q # <<>> /\ Head(q) < t - WindowHours THEN trim(Tail(q), t) ELSE q

\* Counters.record_trade, record_alert.
record_trade ==
    /\ trades_processed < MaxRecords
    /\ trades_processed' = trades_processed + 1
    /\ hourly_trades' = trim(Append(hourly_trades, now), now)
    /\ UNCHANGED <<purevars, storevars, procvars, scoringvars, discoveryvars,
                   webhookvars, loopvars, live_txn, alerts_sent, handler, hourly_alerts,
                   error_times, health>>

record_alert ==
    /\ alerts_sent < MaxRecords
    /\ alerts_sent' = alerts_sent + 1
    /\ hourly_alerts' = trim(Append(hourly_alerts, now), now)
    /\ UNCHANGED <<purevars, storevars, procvars, scoringvars, discoveryvars,
                   webhookvars, loopvars, live_txn, trades_processed, handler,
                   hourly_trades, error_times, health>>

\* counters.errors += 1 in the except clause of a loop or of the handler.
record_error ==
    /\ errors < MaxErrors
    /\ errors' = errors + 1
    /\ error_times' = Append(error_times, now)
    /\ UNCHANGED <<purevars, storevars, now, ticks, seeded, lastAlert,
                   scoringvars, discoveryvars, webhookvars, loopvars, livevars,
                   hourly_trades, hourly_alerts, health>>

\* An hour passes.
HourPasses ==
    /\ now < MaxCounterHours
    /\ now' = now + 1
    /\ UNCHANGED <<purevars, storevars, ticks, errors, seeded, lastAlert,
                   scoringvars, discoveryvars, webhookvars, loopvars, livevars,
                   countervars>>

\* health_loop, one iteration: the pruning UPDATE, then the AgentHealth
\* row and the heartbeat with the figures read from the counters.
HealthSnapshot ==
    /\ wallets' = prune_inactive(wallets, now)
    /\ health' = << [trades_processed_last_hour |-> Len(hourly_trades),
                     alerts_sent_last_hour |-> Len(hourly_alerts),
                     errors_last_hour |-> errors] >>
    /\ UNCHANGED <<purevars, edges, trade_rows, procvars, scoringvars,
                   discoveryvars, webhookvars, loopvars, livevars,
                   hourly_trades, hourly_alerts, error_times>>

NextCounters ==
    record_trade \/ record_alert \/ record_error \/ HourPasses \/ HealthSnapshot

SpecCounters == Init /\ [][NextCounters]_vars

\* ------------------------------------------------------------------------
\* scorer.py: compute_score_from_trades on a history and on a reordering
\* ------------------------------------------------------------------------
OrderCalls == [trades : ShortHistories, min_trades : {1, DefaultMinTrades}]

\* The WalletScore and the is_bot of the BotAnalysis.
Metrics(sc) ==
    [win_rate |-> sc.win_rate, total_trades |-> sc.total_trades,
     winning_trades |-> sc.winning_trades, total_pnl_usd |-> sc.total_pnl_usd,
     bot_score |-> sc.bot_score, is_bot |-> sc.is_bot,
     recommended_tier |-> sc.recommended_tier]

InitOrder == SystemAtStart /\ call \in OrderCalls /\ returned = <<>>

ScoreHistory ==
    /\ returned = <<>>
    /\ returned' = <<Metrics(compute_score_from_trades(call.trades, call.min_trades,
                                                       BotScoreThreshold))>>
    /\ UNCHANGED <<history, min_trades, score, call, sysvars>>

\* The same trades with two neighbours exchanged, scored again.
ScoreReordered ==
    /\ Len(returned) = 1
    /\ \E i \in 1..(Len(call.trades) - 1) :
          /\ call' = [call EXCEPT !.trades = Swapped(call.trades, i)]
          /\ returned' = Append(returned,
                Metrics(compute_score_from_trades(Swapped(call.trades, i),
                                                  call.min_trades, BotScoreThreshold)))
    /\ UNCHANGED <<history, min_trades, score, sysvars>>

NextOrder == ScoreHistory \/ ScoreReordered

SpecOrder == InitOrder /\ [][NextOrder]_vars

\* ------------------------------------------------------------------------
\* handle_live_transaction: the flag of the trade alert
\* ------------------------------------------------------------------------
\* The wallet as the handler read it (win_rate in 1/10000, bot_score in
\* hundredths), the side of the parsed trade and the two settings.
EligibleCalls ==
    [wallet : [tier : WalletTier, win_rate : {0, 2999, 3000, 10000},
               bot_score : {0, 54, 55, 100}],
     side : {"buy", "sell"},
     min_win_rate : {MinWinRatePct * 100},
     bot_score_threshold : {BotScoreThreshold}]

\* The flag without the condition on the side of the trade.
is_copy_eligible_any_side(wallet, side, min_win_rate_, bot_score_threshold) ==
    /\ wallet.tier = TIER1
    /\ wallet.win_rate >= min_win_rate_
    /\ ~(wallet.bot_score >= bot_score_threshold)

\* handle_live_transaction: is_copy_eligible.
is_copy_eligible(wallet, side, min_win_rate_, bot_score_threshold) ==
    /\ wallet.tier = TIER1
    /\ side = "buy"
    /\ wallet.win_rate >= min_win_rate_
    /\ ~(wallet.bot_score >= bot_score_threshold)

InitEligible == SystemAtStart /\ call \in EligibleCalls /\ returned = <<>>

\* handle_live_transaction: the TradeAlert is built from the wallet read
\* before the commit (the session does not expire it), the trade and the
\* flag.
BuildTradeAlert ==
    /\ returned = <<>>
    /\ returned' = << [wallet |-> call.wallet, side |-> call.side,
                       is_copy_eligible |->
                           is_copy_eligible(call.wallet, call.side, call.min_win_rate,
                                            call.bot_score_threshold)] >>
    /\ UNCHANGED <<history, min_trades, score, call, sysvars>>

NextEligible == BuildTradeAlert

SpecEligible == InitEligible /\ [][NextEligible]_vars

\* ------------------------------------------------------------------------
\* handle_live_transaction between its awaits, beside the scoring loop
\* ------------------------------------------------------------------------
\* What the call of parse_enhanced_transaction returns when it does not
\* raise: nothing, or a trade.
ParseReturns == {"none", "trade"}

\* handle_live_transaction: the wallet of a tracked, not exiled account is
\* fetched; the handler then awaits.
LiveFetchWallet(txn) ==
    /\ Seeded /\ handler = <<>>
    /\ ~live_event_ignored(wallets, txn.account)
    /\ live_txn' = <<txn>>
    /\ handler' = << [at |-> "parse", wallet |-> WalletOf(txn.account),
                      side |-> txn.side] >>
    /\ UNCHANGED <<purevars, countervars, loopvars, storevars, procvars, scoringvars,
                   discoveryvars, webhookvars, trades_processed, alerts_sent>>

\* handle_live_transaction: the call of the parser raises (the name is not
\* bound in the module); the except clause counts the error.
LiveParseRaises ==
    /\ handler # <<>> /\ handler[1].at = "parse"
    /\ errors < MaxErrors
    /\ errors' = errors + 1
    /\ handler' = <<>>
    /\ UNCHANGED <<purevars, countervars, loopvars, storevars, now, ticks, seeded,
                   lastAlert, scoringvars, discoveryvars, webhookvars, live_txn,
                   trades_processed, alerts_sent>>

\* handle_live_transaction: the parser returns nothing (the handler
\* returns) or a trade (record_trade, then the UPDATE is awaited).
LiveParse(outcome) ==
    /\ handler # <<>> /\ handler[1].at = "parse"
    /\ IF outcome = "none"
       THEN /\ handler' = <<>>
            /\ UNCHANGED <<trades_processed, hourly_trades>>
       ELSE /\ trades_processed < MaxRecords
            /\ trades_processed' = trades_processed + 1
            /\ hourly_trades' = trim(Append(hourly_trades, now), now)
            /\ handler' = << [handler[1] EXCEPT !.at = "touch"] >>
    /\ UNCHANGED <<purevars, loopvars, storevars, procvars, scoringvars,
                   discoveryvars, webhookvars, live_txn, alerts_sent,
                   hourly_alerts, error_times, health>>

\* handle_live_transaction: UPDATE wallets SET last_active and the commit.
LiveTouch ==
    /\ handler # <<>> /\ handler[1].at = "touch"
    /\ wallets' = [k \in 1..Len(wallets) |->
                     IF wallets[k].address = handler[1].wallet.address
                     THEN [wallets[k] EXCEPT !.last_active = now]
                     ELSE wallets[k]]
    /\ handler' = << [handler[1] EXCEPT !.at = "send"] >>
    /\ UNCHANGED <<purevars, countervars, loopvars, edges, trade_rows, procvars,
                   scoringvars, discoveryvars, webhookvars, live_txn,
                   trades_processed, alerts_sent>>

\* handle_live_transaction: the alert is built from the wallet object and
\* sent; record_alert.
LiveSendAlert ==
    /\ handler # <<>> /\ handler[1].at = "send"
    /\ alerts_sent < MaxRecords
    /\ \E delivered \in BOOLEAN :
          lastAlert' = << [kind |-> "trade", address |-> handler[1].wallet.address,
                           new_tier |-> handler[1].wallet.tier,
                           delivered |-> delivered] >>
    /\ alerts_sent' = alerts_sent + 1
    /\ hourly_alerts' = trim(Append(hourly_alerts, now), now)
    /\ handler' = <<>>
    /\ UNCHANGED <<purevars, loopvars, storevars, now, ticks, errors, seeded,
                   scoringvars, discoveryvars, webhookvars, live_txn,
                   trades_processed, hourly_trades, error_times, health>>

NextRace ==
    \/ Seed
    \/ \E txn \in LiveTxns : LiveEventIgnored(txn)
    \/ \E txn \in LiveTxns : LiveFetchWallet(txn)
    \/ LiveParseRaises
    \/ \E outcome \in ParseReturns : LiveParse(outcome)
    \/ LiveTouch
    \/ LiveSendAlert
    \/ ScoringSelect
    \/ \E i \in 1..Len(FetchedHistories) : ScoreFetch(i)
    \/ \E delivered \in BOOLEAN : NotifyTierChange(delivered)
    \/ \E delivered \in BOOLEAN : NotifyBotExile(delivered)
    \/ PersistScore
    \/ ClusterDetection

SpecRace == Init /\ [][NextRace]_vars

\* ------------------------------------------------------------------------
\* ensure_wallet_exists called on the table the loops are writing
\* ------------------------------------------------------------------------
\* The sources the callers pass: a root wallet, the leaderboard, the seeds.
EnsureSources == {"A", "birdeye_leaderboard"}

\* ensure_wallet_exists (run_agent, discover_from_wallet,
\* fetch_birdeye_top_traders) for any address, at any moment.
EnsureWallet(a, source) ==
    /\ Seeded
    /\ LET r == ensure_wallet_exists(wallets, a, source, now)
       IN  /\ wallets' = r.wallets
           /\ call' = << [address |-> a, source |-> source, at |-> now] >>
           /\ returned' = << [is_new |-> r.is_new,
                              turn |-> IF returned = <<>> THEN 0
                                       ELSE 1 - returned[1].turn] >>
    /\ UNCHANGED <<history, min_trades, score, countervars, loopvars, webhookvars,
                   livevars, edges, trade_rows, procvars, scoringvars, discoveryvars>>

NextEnsure ==
    \/ Seed
    \/ Tick
    \/ ScoringSelect
    \/ \E i \in 1..Len(FetchedHistories) : ScoreFetch(i)
    \/ \E delivered \in BOOLEAN : NotifyTierChange(delivered)
    \/ \E delivered \in BOOLEAN : NotifyBotExile(delivered)
    \/ PersistScore
    \/ ClusterDetection
    \/ HealthPrune
    \/ \E a \in UpstreamAddresses, source \in EnsureSources : EnsureWallet(a, source)

SpecEnsure == Init /\ [][NextEnsure]_vars

\* ------------------------------------------------------------------------
\* scoring_loop iterating for ever while the same wallet keeps failing
\* ------------------------------------------------------------------------
\* The batch limit scaled down for a table of two wallets: what matters is
\* that the wallets that keep failing are as many as the limit.
SmallBatchLimit == 1

\* The wallet whose fetch raises in every iteration.
FailingWallet == "A"

\* scoring_loop: get_wallets_due_for_rescore(db, limit).
ScoringSelectWith(limit) ==
    /\ Seeded /\ pcS = "sleep"
    /\ \E b \in get_wallets_due_for_rescore(wallets, now, limit) :
          /\ batch' = b
          /\ pcS' = IF b = <<>> THEN "cluster" ELSE "fetch"
    /\ cur' = NoScore
    /\ UNCHANGED <<purevars, countervars, loopvars, webhookvars, livevars, storevars,
                   procvars, discoveryvars>>

\* The except clause of the for loop once counters.errors has passed
\* MaxErrors: the counter is not followed further.
ScoreWalletKeepsFailing ==
    /\ pcS \in {"fetch", "notify_tier", "notify_exile", "persist"}
    /\ errors = MaxErrors
    /\ batch' = on_wallet_error(batch).batch
    /\ cur' = NoScore
    /\ pcS' = on_wallet_error(batch).pcS
    /\ UNCHANGED <<purevars, countervars, loopvars, webhookvars, livevars, storevars,
                   procvars, discoveryvars>>

\* The turn of the failing wallet raises.
FailingWalletRaises ==
    /\ batch # <<>> /\ Head(batch).address = FailingWallet
    /\ IF errors < MaxErrors THEN ScoreWalletFails ELSE ScoreWalletKeepsFailing

\* A wallet is processed to the end only if it is not the failing one.
OtherWalletFetched(i) ==
    /\ batch # <<>> /\ Head(batch).address # FailingWallet
    /\ ScoreFetch(i)

\* The steps of scoring_loop with the batch limited to `limit`.
ScoringLoopStep(limit) ==
    \/ ScoringSelectWith(limit)
    \/ \E i \in 1..Len(FetchedHistories) : OtherWalletFetched(i)
    \/ \E delivered \in BOOLEAN : NotifyTierChange(delivered)
    \/ \E delivered \in BOOLEAN : NotifyBotExile(delivered)
    \/ PersistScore
    \/ FailingWalletRaises
    \/ ClusterDetection

NextStarve ==
    \/ Seed
    \/ EnsureWallet("B", "birdeye_leaderboard")
    \/ ScoringSelectWith(SmallBatchLimit)
    \/ \E i \in 1..Len(FetchedHistories) : OtherWalletFetched(i)
    \/ \E delivered \in BOOLEAN : NotifyTierChange(delivered)
    \/ \E delivered \in BOOLEAN : NotifyBotExile(delivered)
    \/ PersistScore
    \/ FailingWalletRaises
    \/ ClusterDetection

\* The loop keeps iterating: `while True` with a sleep of 60 s, every
\* exception caught; main() seeds the wallets before the loops start.
SpecStarve ==
    /\ Init /\ [][NextStarve]_vars
    /\ WF_vars(Seed)
    /\ WF_vars(ScoringLoopStep(SmallBatchLimit))

NextServed ==
    \/ Seed
    \/ EnsureWallet("B", "birdeye_leaderboard")
    \/ ScoringSelectWith(BatchLimit)
    \/ \E i \in 1..Len(FetchedHistories) : OtherWalletFetched(i)
    \/ \E delivered \in BOOLEAN : NotifyTierChange(delivered)
    \/ \E delivered \in BOOLEAN : NotifyBotExile(delivered)
    \/ PersistScore
    \/ FailingWalletRaises
    \/ ClusterDetection

\* The same with the limit of the program (50) and one failing wallet.
SpecServed ==
    /\ Init /\ [][NextServed]_vars
    /\ WF_vars(Seed)
    /\ WF_vars(ScoringLoopStep(BatchLimit))

\* ------------------------------------------------------------------------
\* Claims about the running system (checked under Spec)
\* ------------------------------------------------------------------------
\* The committed row of the wallet the scoring loop is working on.
CurrentRow == WalletOf(Head(batch).address)
NotifyStep ==
    \E delivered \in BOOLEAN : NotifyTierChange(delivered) \/ NotifyBotExile(delivered)
RowKeeps(i, tier) ==
    wallets[i].tier = tier =>
        /\ i <= Len(wallets')
        /\ wallets'[i].address = wallets[i].address
        /\ wallets'[i].tier = tier

\* C1: when the scoring loop issues the tier-change notification or the
\* exile notification for a wallet, the new metrics and tier are already
\* committed: the persisted tier equals the notified new tier.
C1_PersistBeforeNotify ==
    [][NotifyStep =>
          /\ CurrentRow.tier = cur.recommended_tier
          /\ CurrentRow.win_rate = cur.win_rate
          /\ CurrentRow.total_trades = cur.total_trades
          /\ CurrentRow.total_pnl_usd = cur.total_pnl_usd]_vars

\* C2: once the persisted tier of a wallet is archived, no step of the
\* system changes it, whatever the interleaving of the loops.
C2_ArchivedIsFinal ==
    [][\A i \in 1..Len(wallets) : RowKeeps(i, ARCHIVED)]_vars

\* C3: once the persisted tier of a wallet is exiled, no step of the system
\* changes it, whatever the interleaving of the loops.
C3_ExiledIsFinal ==
    [][\A i \in 1..Len(wallets) : RowKeeps(i, EXILED)]_vars

\* An exiled wallet, scored long enough ago to be rescored and inactive
\* long enough to be pruned, while the scoring loop works on a batch it
\* read after the exile: the batch holds another wallet of the same age.
C3_Witness ==
    /\ pcS = "fetch" /\ batch # <<>>
    /\ CurrentRow.last_scored # <<>>
    /\ \E i \in 1..Len(wallets) :
          /\ wallets[i].tier = EXILED
          /\ wallets[i].last_scored # <<>>
          /\ wallets[i].last_scored[1] < now - RescoreHours
          /\ wallets[i].last_scored[1] <= CurrentRow.last_scored[1]
          /\ wallets[i].last_active < now - PruneInactiveDays * HoursPerDay
          /\ \A k \in 1..Len(batch) : batch[k].address # wallets[i].address

\* ------------------------------------------------------------------------
\* Claims about the scorer (checked under SpecScore)
\* ------------------------------------------------------------------------
Matches == score.matches
MatchedPnl == SumSeq(List([i \in 1..Len(Matches) |-> Matches[i].pnl]))
MatchedWins == Cardinality({i \in 1..Len(Matches) : Matches[i].pnl > 0})
\* The exact win rate w/n compared with pct/100.
WinRateAtLeast(pct) ==
    IF Len(Matches) = 0 THEN pct <= 0 ELSE 100 * MatchedWins >= pct * Len(Matches)
Tier1Rule ==
    /\ WinRateAtLeast(Tier1WinRatePct)
    /\ MatchedPnl > Tier1MinPnlUsd * UsdUnit
    /\ Len(Matches) >= Tier1MinTrades
\* A buy of the sell's token at or before the sell.
EligibleBuy(k, sell) ==
    /\ history[k].side = "buy"
    /\ history[k].token_address = sell.token_address
    /\ history[k].block_time <= sell.block_time

\* C4: whenever the bot analysis of the history says is_bot, the recommended
\* tier is exiled, whatever the matched-sell count, win rate and PnL.
C4_BotIsExiled ==
    (Scored /\ score.is_bot) => score.recommended_tier = EXILED

\* A bot whose figures satisfy the tier1 rule and the minimum thresholds.
C4_Witness ==
    /\ Scored /\ score.is_bot /\ Tier1Rule
    /\ Len(Matches) >= min_trades /\ WinRateAtLeast(MinWinRatePct)
    /\ score.recommended_tier = EXILED

\* C5: with fewer matched sells than settings.min_trades the recommended
\* tier is never tier1, for every value of the threshold.
C5_BelowMinTradesNeverTier1 ==
    (Scored /\ Len(Matches) < min_trades) => score.recommended_tier # TIER1

\* A human history that satisfies the tier1 rule but has fewer matched
\* sells than the threshold.
C5_Witness ==
    /\ Scored /\ ~score.is_bot /\ Tier1Rule /\ WinRateAtLeast(MinWinRatePct)
    /\ Len(Matches) < min_trades
    /\ score.recommended_tier = CANDIDATE

\* C6: for a non-bot history with matched sells >= min_trades and win rate
\* >= min_win_rate, the tier is tier1 exactly when win rate >= 0.45, total
\* PnL > 500 and matched sells >= 80, and tier2 otherwise.
C6_Tier1Rule ==
    (/\ Scored /\ ~score.is_bot
     /\ Len(Matches) >= min_trades /\ WinRateAtLeast(MinWinRatePct))
    => score.recommended_tier = (IF Tier1Rule THEN TIER1 ELSE TIER2)

\* A history recommended tier1.
C6_Witness ==
    /\ Scored /\ ~score.is_bot
    /\ Len(Matches) >= min_trades /\ WinRateAtLeast(MinWinRatePct)
    /\ Tier1Rule /\ score.recommended_tier = TIER1

\* C7: per token, no buy is consumed twice, sells are taken in ascending
\* time, and each matched sell is paired with the earliest buy of its token
\* at or before it that no earlier sell consumed; its PnL is proceeds minus
\* that buy's cost and its hold time their time difference.
C7_FifoPairing ==
    Scored =>
      /\ \A i, j \in 1..Len(Matches) :
            i # j => /\ Matches[i].buy # Matches[j].buy
                     /\ Matches[i].consumed # Matches[j].consumed
                     /\ Matches[i].sell # Matches[j].sell
      /\ \A i, j \in 1..Len(Matches) :
            (i < j /\ Matches[i].token = Matches[j].token)
            => history[Matches[i].sell].block_time <= history[Matches[j].sell].block_time
      /\ \A i \in 1..Len(Matches) :
            LET sell == history[Matches[i].sell]
                buy  == history[Matches[i].buy]
                consumedBefore == {Matches[j].consumed : j \in 1..(i - 1)}
            IN  /\ sell.side = "sell"
                /\ Matches[i].consumed = Matches[i].buy
                /\ EligibleBuy(Matches[i].buy, sell)
                /\ Matches[i].buy \notin consumedBefore
                /\ \A k \in 1..Len(history) :
                      (EligibleBuy(k, sell) /\ k \notin consumedBefore)
                      => buy.block_time <= history[k].block_time
                /\ Matches[i].pnl = sell.amount_usd - buy.amount_usd
                /\ Matches[i].hold = sell.block_time - buy.block_time

\* A sell with two waiting buys of its token at or before it, paired with
\* the strictly earlier one.
C7_Witness ==
    /\ Scored
    /\ \E i \in 1..Len(Matches) : \E k \in 1..Len(history) :
          /\ EligibleBuy(k, history[Matches[i].sell])
          /\ k \notin {Matches[j].consumed : j \in 1..(i - 1)}
          /\ history[Matches[i].buy].block_time < history[k].block_time

\* The sells of the history that have a buy of their token at or before them.
SellsWithPriorBuy ==
    {k \in 1..Len(history) :
        /\ history[k].side = "sell"
        /\ \E b \in 1..Len(history) : EligibleBuy(b, history[k])}

\* C8 as stated: the reported total PnL is the sum of the matched sells'
\* PnL, the trade count their number, the win rate the profitable ones
\* divided by their number (0 when none), and a sell without an eligible
\* prior buy is in none of them.
C8_AggregatesExact ==
    Scored =>
      /\ {Matches[i].sell : i \in 1..Len(Matches)} \subseteq SellsWithPriorBuy
      /\ score.total_trades = Len(Matches)
      /\ score.winning_trades = MatchedWins
      /\ score.win_rate * Len(Matches) = 10000 * MatchedWins
      /\ score.total_pnl_usd * UsdUnit = 100 * MatchedPnl

\* C8 as amended: the same, with the reported total PnL the sum rounded to
\* the cent and the reported win rate the quotient rounded to four places.
C8_AggregatesRounded ==
    Scored =>
      /\ {Matches[i].sell : i \in 1..Len(Matches)} \subseteq SellsWithPriorBuy
      /\ score.total_trades = Len(Matches)
      /\ score.winning_trades = MatchedWins
      /\ 2 * Abs(score.win_rate * Len(Matches) - 10000 * MatchedWins) <= Len(Matches)
      /\ 2 * Abs(score.total_pnl_usd * UsdUnit - 100 * MatchedPnl) <= UsdUnit

\* A history with a matched sell and a sell that has no buy at or before it.
C8_Witness ==
    /\ Scored
    /\ Len(Matches) >= 1
    /\ \E k \in 1..Len(history) :
          history[k].side = "sell" /\ k \notin SellsWithPriorBuy

\* ------------------------------------------------------------------------
\* Claims about the store's uniqueness (checked under Spec)
\* ------------------------------------------------------------------------
EdgeRows(table, source, target) ==
    {i \in 1..Len(table) :
        table[i].source_address = source /\ table[i].target_address = target}
UniqueAddresses ==
    \A i, j \in 1..Len(wallets) : wallets[i].address = wallets[j].address => i = j
WalletInsertion ==
    \/ Seed
    \/ \E a \in UpstreamAddresses : BirdeyeInsert(a)
    \/ \E co \in UpstreamAddresses, token \in Tokens : DiscoverCoTrader(co, token)

\* C9: an edge recorded more than once, in one discovery cycle or in
\* several, is a single row whose co-occurrence count has grown with each
\* recording: no pair of wallets has two rows, and no recording leaves the
\* counts of its pair as they were.
C9_EdgeRecordedOnce ==
    [][DiscoverRecordEdge =>
          /\ Cardinality(EdgeRows(edges', dEdge[1].source, dEdge[1].target)) <= 1
          /\ \A i \in EdgeRows(edges, dEdge[1].source, dEdge[1].target) :
                edges'[i].co_occurrences = edges[i].co_occurrences + 1]_vars

\* C10: whatever wallets are inserted by seeding, discovery and the
\* leaderboard import, no two rows have the same address, and an insertion
\* counts no error.
C10_OneRecordPerAddress ==
    /\ []UniqueAddresses
    /\ [][WalletInsertion => errors' = errors]_vars

\* The second seed is the address of the first; a discovery or a
\* leaderboard import has inserted another wallet since.
C10_Witness ==
    /\ Seeded
    /\ SEED_WALLETS[1] = SEED_WALLETS[2]
    /\ Cardinality(RowsOf(wallets, SEED_WALLETS[1])) = 1
    /\ Len(wallets) = 2
    /\ errors = 0

\* ------------------------------------------------------------------------
\* Claims about persist_trades (checked under SpecTrades)
\* ------------------------------------------------------------------------
SignatureRows(table, sig) == {i \in 1..Len(table) : table[i].signature = sig}

\* C11: persisting a batch that holds a signature already stored, or the
\* same signature twice, leaves exactly one Trade row of that signature,
\* and the rows stored before are unchanged (every step of SpecTrades
\* persists the batch it leaves in history).
C11_OneTradePerSignature ==
    [][/\ \A k \in 1..Len(history') :
             Cardinality(SignatureRows(trade_rows', history'[k].signature)) = 1
       /\ Len(trade_rows') >= Len(trade_rows)
       /\ SubSeq(trade_rows', 1, Len(trade_rows)) = trade_rows]_vars

\* The last batch held the same signature twice with different amounts,
\* and a signature stored before with another amount and another wallet.
C11_Witness ==
    /\ Len(history) = 2
    /\ history[1].signature = history[2].signature
    /\ history[1].amount_usd # history[2].amount_usd
    /\ Cardinality(SignatureRows(trade_rows, history[1].signature)) = 1
    /\ \E i \in 1..Len(trade_rows) :
          /\ trade_rows[i].signature = history[1].signature
          /\ trade_rows[i].amount_usd # history[1].amount_usd
          /\ i < Len(trade_rows)

\* ------------------------------------------------------------------------
\* Claims about the webhook-sync loop (checked under SpecSync)
\* ------------------------------------------------------------------------
\* A step that is a cycle of the loop in which the query answered.
SyncCycle == wCycle' # wCycle /\ sync' # <<>>

\* C12, as stated: a cycle that computes the same desired set as the cycle
\* immediately before it makes no create or update call.
C12_NoCallWhenSameAsPreviousCycle ==
    [][SyncCycle /\ sync # <<>> /\ sync'[1].tier1_addresses = sync[1].tier1_addresses
          => sync'[1].call = NoCall]_vars

\* C12, amended: a cycle that computes the set that was last registered
\* with success (or the empty set while nothing is registered) makes no
\* create or update call; so does a cycle that follows a cycle with the same
\* desired set whose call, if it made one, was answered.
C12_NoCallWhenSameAsLastSynced ==
    [][SyncCycle =>
          /\ sync'[1].tier1_addresses = webhook_addresses => sync'[1].call = NoCall
          /\ (/\ sync # <<>>
              /\ sync'[1].tier1_addresses = sync[1].tier1_addresses
              /\ webhook_addresses = sync[1].tier1_addresses)
                => sync'[1].call = NoCall]_vars

\* The last cycle read a non-empty tier-1 set, found it registered and made
\* no call.
C12_Witness ==
    /\ sync # <<>>
    /\ sync[1].tier1_addresses # {}
    /\ sync[1].call = NoCall
    /\ webhook_addresses = sync[1].tier1_addresses

Tier1Addresses(table) == {table[i].address : i \in {k \in 1..Len(table) : table[k].tier = TIER1}}

\* C13: every address list the loop passes to a create or update call holds
\* only addresses of wallets that were tier1 when the cycle read the table,
\* and at most tier1_max_wallets of them.
C13_CallListIsCappedTier1 ==
    [][SyncCycle /\ sync'[1].call # NoCall =>
          /\ sync'[1].call.addresses \subseteq Tier1Addresses(wallets)
          /\ Cardinality(sync'[1].call.addresses) <= tier1_max_wallets]_vars

\* A call was made with as many addresses as the cap allows while more
\* wallets than that are tier1.
C13_Witness ==
    /\ sync # <<>>
    /\ sync[1].call # NoCall
    /\ Cardinality(sync[1].call.addresses) = tier1_max_wallets
    /\ sync[1].call.addresses \subseteq Tier1Addresses(wallets)
    /\ Cardinality(Tier1Addresses(wallets)) > tier1_max_wallets

\* ------------------------------------------------------------------------
\* Claims about the live event handler (checked under SpecLive)
\* ------------------------------------------------------------------------
\* A step in which the handler took the event txn.
Handled(txn) == live_txn' = <<txn>> /\ live_txn' # live_txn

NoRecordOrExiled(account) ==
    IF HasWallet(account) THEN WalletOf(account).tier = EXILED ELSE TRUE

\* C14: for an event whose wallet has no Wallet record or is exiled, the
\* handler returns: no alert is sent, no last_active is written, no trade
\* and no alert is counted, and no error is counted.
C14_IgnoredEventChangesNothing ==
    [][\A txn \in LiveTxns :
          Handled(txn) /\ txn.account # None /\ NoRecordOrExiled(txn.account) =>
             /\ lastAlert' = lastAlert
             /\ wallets' = wallets
             /\ trades_processed' = trades_processed /\ alerts_sent' = alerts_sent
             /\ errors' = errors]_vars

\* The handler has taken an event of a wallet that was exiled by then, and
\* no handler run has failed.
C14_Witness ==
    /\ live_txn # <<>>
    /\ live_txn[1].account # None
    /\ HasWallet(live_txn[1].account)
    /\ WalletOf(live_txn[1].account).tier = EXILED
    /\ errors = 0

\* orchestrator.py: is_copy_eligible, on the wallet row as stored.
CopyEligible(txn) ==
    /\ txn.account # None
    /\ HasWallet(txn.account)
    /\ WalletOf(txn.account).tier = TIER1
    /\ txn.side = "buy"
    /\ WalletOf(txn.account).win_rate >= MinWinRatePct * 100
    /\ WalletOf(txn.account).bot_score < BotScoreThreshold

InactiveAt(row, t) == row.last_active < t - PruneInactiveDays * HoursPerDay

\* C16: the pruning step of the health loop changes a tier only from tier2
\* or candidate to archived, and only for a wallet whose last_active is
\* older than the inactivity window; tier1, exiled and archived wallets keep
\* their tier.
C16_PruneOnlyArchivesInactive ==
    [][HealthPrune =>
          /\ Len(wallets') = Len(wallets)
          /\ \A i \in 1..Len(wallets) :
                /\ wallets'[i].tier # wallets[i].tier =>
                      /\ wallets[i].tier \in {TIER2, CANDIDATE}
                      /\ wallets'[i].tier = ARCHIVED
                      /\ InactiveAt(wallets[i], now)
                /\ wallets[i].tier \in {TIER1, EXILED, ARCHIVED} =>
                      wallets'[i].tier = wallets[i].tier]_vars

\* One wallet has been archived while a tier1 or exiled wallet that is as
\* inactive has kept its tier.
C16_Witness ==
    \E i, j \in 1..Len(wallets) :
        /\ wallets[i].tier = ARCHIVED
        /\ wallets[j].tier \in {TIER1, EXILED}
        /\ InactiveAt(wallets[j], now)

\* C17: when the turn of one wallet of a scoring batch raises, exactly one
\* error is counted, nothing is written for that wallet, and the loop goes
\* on with the next wallet of the batch; the loop leaves the batch only when
\* no wallet of it is left.
C17_FailureSkipsOneWallet ==
    /\ [][errors' # errors =>
             /\ errors' = errors + 1
             /\ batch # <<>> /\ batch' = Tail(batch)
             /\ wallets' = wallets /\ lastAlert' = lastAlert
             /\ pcS' = IF Tail(batch) # <<>> THEN "fetch" ELSE "cluster"]_vars
    /\ [](pcS \in {"sleep", "cluster"} <=> batch = <<>>)

\* The wallet inserted first was read into the batch together with the
\* second one, its turn has raised, and the loop is at the second one.
C17_Witness ==
    /\ errors = 1
    /\ Len(wallets) = 2
    /\ wallets[1].tier = CANDIDATE /\ wallets[1].last_scored = <<>>
    /\ pcS = "fetch"
    /\ batch = <<Snapshot(wallets[2])>>

\* ------------------------------------------------------------------------
\* Claims about the loops of run_agent (checked under SpecLoops)
\* ------------------------------------------------------------------------
\* C18: an exception in the body of an iteration of a loop ends no loop;
\* the loop whose body raised starts a new iteration, and each of the four
\* loops begins iterations again and again.
C18_LoopsIterateForever ==
    /\ [](\A l \in Loops : loop_at[l] # "ended")
    /\ \A l \in Loops :
          /\ (loop_raised = <<l>> /\ loop_at[l] = "sleep") ~> (loop_at[l] = "body")
          /\ []<>(loop_at[l] = "body" /\ loop_iter[l] = 0)
          /\ []<>(loop_at[l] = "body" /\ loop_iter[l] = 1)

\* The body of the scoring loop has raised, the error is counted, and the
\* loop is in a later iteration while the other loops are in one too.
C18_Witness ==
    /\ loop_raised = <<"scoring">>
    /\ errors = 1
    /\ \A l \in Loops : loop_at[l] = "body"

\* A step of the scoring loop that is not the except clause.
ScoringStep == pcS' # pcS /\ errors' = errors

\* C19: in the pass over a wallet the tier-change notification is invoked
\* only if the recommended tier differs from the tier the wallet was read
\* with; the exile notification is issued exactly when the tier differs and
\* the recommended tier is exiled; a pass whose recommended tier is the
\* wallet's tier goes to persist_score without any notification.
C19_NotifyOnlyOnTierChange ==
    /\ [][ScoringStep /\ pcS = "fetch" /\ cur' # NoScore =>
             /\ pcS' = "notify_tier" <=> cur'.recommended_tier # Head(batch).tier
             /\ pcS' = "persist" <=> cur'.recommended_tier = Head(batch).tier
             /\ lastAlert' = lastAlert]_vars
    /\ [][ScoringStep /\ pcS = "notify_tier" =>
             (pcS' = "notify_exile" <=> cur.recommended_tier = EXILED)]_vars
    /\ [][lastAlert' # lastAlert =>
             /\ pcS \in {"notify_tier", "notify_exile"}
             /\ cur.recommended_tier # Head(batch).tier
             /\ lastAlert'[1].address = Head(batch).address
             /\ lastAlert'[1].kind = "bot_exile" <=> pcS = "notify_exile"]_vars
    /\ [](pcS = "notify_exile" =>
             cur.recommended_tier = EXILED /\ Head(batch).tier # EXILED)

\* The pass over a wallet read as candidate has recommended exiled, the
\* exile notification is out and persist_score is next.
C19_Witness ==
    /\ pcS = "persist"
    /\ cur.recommended_tier = EXILED
    /\ Head(batch).tier = CANDIDATE
    /\ lastAlert # <<>>
    /\ lastAlert[1].kind = "bot_exile"
    /\ lastAlert[1].address = Head(batch).address

\* The row of the wallet whose turn it is, in a table.
TurnRow(table) == table[CHOOSE i \in RowsOf(table, Head(batch).address) : TRUE]

RowFor(table, address) == table[CHOOSE i \in RowsOf(table, address) : TRUE]
IsDue(row, t) ==
    /\ row.tier \notin {EXILED, ARCHIVED}
    /\ row.last_scored = <<>> \/ row.last_scored[1] < t - RescoreHours

\* C21: the batch holds only wallets that are neither exiled nor archived
\* and were never scored or last scored longer ago than the staleness
\* window, holds at most `limit` wallets, each once, and lists the
\* never-scored wallets first and then the others by ascending last_scored.
C21_BatchIsDueCappedOldestFirst ==
    returned # <<>> =>
        LET b == returned[1]
            ls(k) == RowFor(call.table, b[k].address).last_scored
        IN  /\ Len(b) <= call.limit
            /\ \A k \in 1..Len(b) :
                  /\ RowsOf(call.table, b[k].address) # {}
                  /\ IsDue(RowFor(call.table, b[k].address), call.t)
                  /\ b[k].tier = RowFor(call.table, b[k].address).tier
            /\ \A i, j \in 1..Len(b) : i < j =>
                  /\ b[i].address # b[j].address
                  /\ ls(i) = <<>> \/ (ls(j) # <<>> /\ ls(i)[1] <= ls(j)[1])

\* Three wallets are due, one never scored and two scored at different
\* hours; the limit is 2 and the batch is the never-scored wallet followed
\* by a scored one.
C21_Witness ==
    /\ returned # <<>>
    /\ call.limit = 2 /\ Len(returned[1]) = 2
    /\ \A i \in 1..Len(call.table) : IsDue(call.table[i], call.t)
    /\ RowFor(call.table, returned[1][1].address).last_scored = <<>>
    /\ RowFor(call.table, returned[1][2].address).last_scored # <<>>
    /\ \E i \in 1..Len(call.table) :
          /\ call.table[i].last_scored # <<>>
          /\ call.table[i].address # returned[1][2].address

\* ------------------------------------------------------------------------
\* Claims about detect_bot_clusters (checked under SpecClusters)
\* ------------------------------------------------------------------------
MapWallets(m) == {m[i].wallet : i \in 1..Len(m)}
BuysOf(m, w) ==
    {<<i, j>> \in (1..Len(m)) \X (1..MaxWalletTrades) :
        /\ m[i].wallet = w
        /\ j <= Len(m[i].trades)
        /\ m[i].trades[j].side = "buy"}
\* The number of pairs of buys of one token, one by w1 and one by w2, at
\* most 0.4 * threshold seconds apart.
CoOccurrences(m, threshold, w1, w2) ==
    Cardinality({p \in BuysOf(m, w1) \X BuysOf(m, w2) :
        LET b1 == m[p[1][1]].trades[p[1][2]]
            b2 == m[p[2][1]].trades[p[2][2]]
        IN  /\ b1.token_address = b2.token_address
            /\ Abs(b1.block_time - b2.block_time) * 10 <= threshold * 4})
CoTradingEdges(c) ==
    {e \in SUBSET MapWallets(c.wallet_trade_map) :
        /\ Cardinality(e) = 2
        /\ \E w1, w2 \in e :
              /\ w1 # w2
              /\ CoOccurrences(c.wallet_trade_map, c.block_delta_threshold, w1, w2)
                    >= c.min_co_occurrences}
LastReturned == returned[Len(returned)]

\* C22: the wallets of the result are exactly the wallets with a qualifying
\* edge in the co-occurrence graph, and two of them have the same cluster
\* identifier exactly when they lie in the same connected component.
C22_ClustersAreTheConnectedComponents ==
    returned # <<>> =>
        LET edges_ == CoTradingEdges(call)
        IN  /\ DOMAIN LastReturned = UNION edges_
            /\ \A w1, w2 \in DOMAIN LastReturned :
                  (LastReturned[w1] = LastReturned[w2])
                      <=> w2 \in Component({w1}, edges_)

\* Two components of two wallets each are found and carry different
\* identifiers.
C22_Witness ==
    /\ returned # <<>>
    /\ DOMAIN LastReturned = {"A", "B", "C", "D"}
    /\ LastReturned["A"] = LastReturned["B"]
    /\ LastReturned["C"] = LastReturned["D"]
    /\ LastReturned["A"] # LastReturned["C"]

\* A chain: x is linked with B only and B with A, and all three share one
\* identifier while a pair with too few co-occurrences is no edge.
ChainClustered ==
    /\ returned # <<>>
    /\ DOMAIN LastReturned = {"A", "B", "x"}
    /\ {"A", "x"} \notin CoTradingEdges(call)

SameGrouping(r1, r2) ==
    /\ DOMAIN r1 = DOMAIN r2
    /\ \A w1, w2 \in DOMAIN r1 : (r1[w1] = r1[w2]) <=> (r2[w1] = r2[w2])

\* C23: detect_bot_clusters returns the same result, cluster identifiers
\* included, for a mapping and for the same mapping with its wallets or the
\* trades of a wallet in another order.
C23_ResultUnchangedByReordering ==
    Len(returned) = 2 => returned[1] = returned[2]

\* The grouping alone does not depend on the order: the same wallets are
\* clustered, and clustered together, before and after the reordering.
C23_GroupingUnchangedByReordering ==
    Len(returned) = 2 => SameGrouping(returned[1], returned[2])

\* Two rings were found in both orders, with the identifiers exchanged.
C23_IdentifiersExchanged ==
    /\ Len(returned) = 2
    /\ DOMAIN returned[1] = {"A", "B", "C", "D"}
    /\ returned[1]["A"] = returned[2]["C"]
    /\ returned[1]["C"] = returned[2]["A"]
    /\ returned[1]["A"] # returned[1]["C"]

\* ------------------------------------------------------------------------
\* Claims about run_cluster_detection (checked under SpecExile)
\* ------------------------------------------------------------------------
DetectedClusters ==
    detect_bot_clusters(parsed_map(RecentTrades(trade_rows, now)),
                        BlockDeltaThreshold, MinCoOccurrences)

\* C24: after a cluster-detection run that completes without error, every
\* tracked wallet that is in the detected cluster mapping has tier exiled,
\* whatever its tier was before the run.
C24_ClusteredWalletsAreExiled ==
    [][ClusterDetection =>
          \A i \in 1..Len(wallets') :
              wallets'[i].address \in DOMAIN DetectedClusters
                  => wallets'[i].tier = EXILED]_vars

\* A run has exiled wallets A and B, which bought together inside
\* the window, while the third tracked wallet, whose buys are older, keeps
\* a tier other than exiled.
C24_Witness ==
    /\ pcS = "sleep"
    /\ DOMAIN DetectedClusters = {"A", "B"}
    /\ Len(wallets) = 3
    /\ \A i \in 1..2 : wallets[i].tier = EXILED /\ wallets[i].notes = "bot cluster detected"
    /\ wallets[3].tier = ARCHIVED
    /\ \E k \in 1..Len(trade_rows) : trade_rows[k].wallet_address = "x"

\* ------------------------------------------------------------------------
\* Claims about analyse_wallet_for_bot (checked under SpecBot)
\* ------------------------------------------------------------------------
SignalWeights(analysis) ==
    [i \in 1..Len(analysis.signals) |-> analysis.signals[i][2]]

\* C25: for a non-empty history the bot score is the sum of the weights of
\* the signals that fired, capped at 1.0, and is_bot is true exactly when
\* that score is greater than or equal to the bot-score threshold.
C25_ScoreIsCappedSumAndIsBotIffAtThreshold ==
    (returned # <<>> /\ call.trades # <<>>) =>
        /\ returned[1].bot_score = Min(SumSeq(SignalWeights(returned[1])), 100)
        /\ returned[1].bot_score \in 0..100
        /\ returned[1].is_bot <=> returned[1].bot_score >= call.bot_score_threshold

\* The first half alone: the score is the capped sum of the weights.
C25_ScoreIsCappedSum ==
    (returned # <<>> /\ call.trades # <<>>) =>
        returned[1].bot_score = Min(SumSeq(SignalWeights(returned[1])), 100)

\* A history whose score is exactly the threshold and is not a bot's.
C25_AtThresholdNotBot ==
    /\ returned # <<>> /\ call.trades # <<>>
    /\ returned[1].bot_score = call.bot_score_threshold
    /\ ~returned[1].is_bot

\* C26: for an empty history analyse_wallet_for_bot returns score 0.5 with
\* the no-data signal alone and is_bot false, whatever the configured
\* threshold, and compute_score_from_trades never recommends exile for it.
C26_NoDataIsNeverABot ==
    (returned # <<>> /\ call.trades = <<>>) =>
        /\ returned[1].bot_score = 50
        /\ returned[1].signals = << <<"no_data", 50>> >>
        /\ returned[1].is_bot = FALSE
        /\ Len(returned) = 2 => returned[2] # EXILED

\* The empty history has been analysed and scored with a threshold below
\* the no-data score.
C26_Witness ==
    /\ Len(returned) = 2
    /\ call.trades = <<>>
    /\ call.bot_score_threshold < returned[1].bot_score
    /\ returned[2] = CANDIDATE

\* ------------------------------------------------------------------------
\* Claims about _parse_via_token_transfers (checked under SpecParse)
\* ------------------------------------------------------------------------
ReceivedMints ==
    {call.txn.tokenTransfers[i].mint :
        i \in {j \in 1..Len(call.txn.tokenTransfers) :
                 call.txn.tokenTransfers[j].toUserAccount = call.wallet_address}}
SentMints ==
    {call.txn.tokenTransfers[i].mint :
        i \in {j \in 1..Len(call.txn.tokenTransfers) :
                 call.txn.tokenTransfers[j].fromUserAccount = call.wallet_address}}
BaseAssets == {SOL_MINT, USDC_MINT, USDT_MINT, ""}
NativeDelta == native_change_of(call.txn, call.wallet_address)
BuyCondition == ReceivedMints \ BaseAssets # {} /\ NativeDelta < 0
SellCondition == SentMints \ BaseAssets # {} /\ NativeDelta > 0

\* C27: rule 1 yields a buy only if the wallet received a non-base token
\* and its native balance delta is negative, a sell only if the wallet sent
\* a non-base token and its native balance delta is positive, and nothing
\* for an event that meets neither condition.
C27_SideFollowsTransfersAndNativeDelta ==
    \A k \in 1..Len(returned) :
        /\ (returned[k] # <<>> /\ returned[k][1].side = "buy") => BuyCondition
        /\ (returned[k] # <<>> /\ returned[k][1].side = "sell") => SellCondition
        /\ (~BuyCondition /\ ~SellCondition) => returned[k] = <<>>

\* What the code does: the side follows the transfers alone, a received
\* non-base token making a buy whatever was sent.
C27_SideFollowsTransfersAlone ==
    \A k \in 1..Len(returned) :
        /\ (returned[k] # <<>> /\ returned[k][1].side = "buy")
              <=> ReceivedMints \ BaseAssets # {}
        /\ (returned[k] # <<>> /\ returned[k][1].side = "sell")
              <=> (ReceivedMints \ BaseAssets = {} /\ SentMints \ BaseAssets # {})

\* A token received with nothing paid is returned as a buy of 0 SOL.
C27_UnpaidTransferIsABuy ==
    /\ returned # <<>> /\ returned[1] # <<>>
    /\ returned[1][1].side = "buy" /\ returned[1][1].amount_sol = 0
    /\ NativeDelta = 0 /\ SentMints = {}

FirstNonBase(side_account) ==
    LET own == SelectSeq(call.txn.tokenTransfers,
                 LAMBDA t : IF side_account = "to"
                            THEN t.toUserAccount = call.wallet_address
                            ELSE t.fromUserAccount = call.wallet_address)
        traded == SelectSeq(own, LAMBDA t : t.mint \notin BaseAssets)
    IN  traded[1].mint

\* C28: the token of the normalized trade is the first non-base mint in the
\* order of the event's transfers, and normalizing the same event twice
\* yields the same token.
C28_TokenIsFirstListedAndRepeatable ==
    /\ \A k \in 1..Len(returned) :
          returned[k] # <<>> =>
              returned[k][1].token_address =
                  FirstNonBase(IF returned[k][1].side = "buy" THEN "to" ELSE "from")
    /\ Len(returned) = 2 => returned[1] = returned[2]

\* Two non-base tokens were received, and the two normalizations of the
\* event name different tokens.
C28_TwoTokensTwoAnswers ==
    /\ Len(returned) = 2
    /\ returned[1] # <<>> /\ returned[2] # <<>>
    /\ returned[1][1].token_address # returned[2][1].token_address

\* ------------------------------------------------------------------------
\* Claims about who writes a wallet record (checked under SpecWriters)
\* ------------------------------------------------------------------------
LiveStep == \E txn \in LiveTxns : LiveEventIgnored(txn) \/ LiveEventFails(txn)
WebhookStep == WebhookSync \/ WebhookSyncFails
ButLastActive(row) == [row EXCEPT !.last_active = 0]
TierRewritten ==
    \E i \in 1..Len(wallets) : i <= Len(wallets') /\ wallets'[i].tier # wallets[i].tier

\* C29: a step of the live handler leaves every wallet record as it was but
\* for last_active, and a cycle of the webhook loop leaves the table as it
\* was; the tier of a wallet changes only in a step of score persistence,
\* cluster detection or the health loop's pruning; and every wallet record
\* of before a step is there after it.
C29_TierWritersAndNoDelete ==
    [][/\ LiveStep =>
            /\ Len(wallets') = Len(wallets)
            /\ \A i \in 1..Len(wallets) :
                  ButLastActive(wallets'[i]) = ButLastActive(wallets[i])
       /\ WebhookStep => wallets' = wallets
       /\ TierRewritten => (PersistScore \/ ClusterDetection \/ HealthPrune)
       /\ Len(wallets') >= Len(wallets)
       /\ \A i \in 1..Len(wallets) : wallets'[i].address = wallets[i].address]_vars

\* The live handler has handled an event of a tracked wallet that score
\* persistence promoted to tier 1 and the webhook loop has registered,
\* and the clock has moved on.
C29_Witness ==
    /\ live_txn # <<>>
    /\ HasWallet(live_txn[1].account)
    /\ WalletOf(live_txn[1].account).tier = TIER1
    /\ errors > 0
    /\ webhook_addresses = {live_txn[1].account}
    /\ ticks > 0

\* ------------------------------------------------------------------------
\* Claims about the counters (checked under SpecCounters)
\* ------------------------------------------------------------------------
WithinLastHour(times) ==
    Cardinality({i \in 1..Len(times) : times[i] >= now - WindowHours /\ times[i] <= now})

\* C30: every trades, alerts and errors figure the health loop records is
\* the number of such events in the hour before the read.
C30_FiguresCountTheLastHour ==
    [][HealthSnapshot =>
          /\ health'[1].trades_processed_last_hour = WithinLastHour(hourly_trades)
          /\ health'[1].alerts_sent_last_hour = WithinLastHour(hourly_alerts)
          /\ health'[1].errors_last_hour = WithinLastHour(error_times)]_vars

\* The trades and alerts figures alone, read right after a record of the
\* same kind in the same hour, are right.
C30_FreshlyTrimmedFiguresAreRight ==
    [][HealthSnapshot =>
          /\ (hourly_trades # <<>> /\ hourly_trades[Len(hourly_trades)] = now)
                => health'[1].trades_processed_last_hour = WithinLastHour(hourly_trades)
          /\ (hourly_alerts # <<>> /\ hourly_alerts[Len(hourly_alerts)] = now)
                => health'[1].alerts_sent_last_hour = WithinLastHour(hourly_alerts)]_vars

\* A snapshot taken more than an hour after the only error reports one
\* error in the last hour.
C30_OldErrorReported ==
    /\ health # <<>> /\ health[1].errors_last_hour = 1
    /\ error_times = <<0>> /\ now = 2
    /\ hourly_trades = <<>> /\ hourly_alerts = <<>>

\* A snapshot taken more than an hour after the last trade reports it.
C30_StaleTradeReported ==
    /\ health # <<>> /\ health[1].trades_processed_last_hour = 1
    /\ hourly_trades = <<0>> /\ now = 2

\* ------------------------------------------------------------------------
\* Claims about the order of the history (checked under SpecOrder)
\* ------------------------------------------------------------------------
\* C31: compute_score_from_trades returns the same metrics and the same
\* recommended tier for two orderings of the same trades, trades of one
\* token with equal timestamps included.
C31_SameScoreForEveryOrdering ==
    Len(returned) = 2 => returned[1] = returned[2]

SameTokenSameTime ==
    \E i, j \in 1..Len(call.trades) :
        /\ i # j
        /\ call.trades[i].token_address = call.trades[j].token_address
        /\ call.trades[i].block_time = call.trades[j].block_time

\* With no two trades of one token at one time the order does not matter.
C31_SameScoreWithoutTies ==
    (Len(returned) = 2 /\ ~SameTokenSameTime) => returned[1] = returned[2]

\* Two buys of one token at one time and a later sell: one order wins, the
\* other loses, and the recommended tiers differ.
C31_TieDecidesTheTier ==
    /\ Len(returned) = 2
    /\ returned[1].total_trades = 1 /\ returned[2].total_trades = 1
    /\ returned[1].winning_trades # returned[2].winning_trades
    /\ returned[1].recommended_tier # returned[2].recommended_tier

\* ------------------------------------------------------------------------
\* Claims about the flag of the trade alert (checked under SpecEligible)
\* ------------------------------------------------------------------------
\* C32: the copy-eligibility flag of a trade alert is true exactly when the
\* tier of the wallet as the handler read it is tier1, the side of the trade
\* is buy, the win rate of the wallet is at least min_win_rate and its bot
\* score is below bot_score_threshold.
C32_FlagExactlyWhenEligible ==
    returned # <<>> =>
        (returned[1].is_copy_eligible <=>
            /\ call.wallet.tier = TIER1
            /\ call.side = "buy"
            /\ call.wallet.win_rate >= call.min_win_rate
            /\ call.wallet.bot_score < call.bot_score_threshold)

\* An alert for a tier-1 wallet at the two limits carries the flag.
C32_EligibleAtTheLimits ==
    /\ returned # <<>>
    /\ returned[1].is_copy_eligible
    /\ call.wallet.win_rate = call.min_win_rate
    /\ call.wallet.bot_score = call.bot_score_threshold - 1

\* ------------------------------------------------------------------------
\* Claims about failed subscription calls (checked under SpecSync)
\* ------------------------------------------------------------------------
\* The call of the cycle just run was not answered: create returned None or
\* edit returned False.
CallFailed(cycle) ==
    /\ cycle.call # NoCall
    /\ IF cycle.call.op = "create" THEN cycle.resp = <<>> ELSE cycle.resp = <<FALSE>>
CallSucceeded(cycle) == cycle.call # NoCall /\ ~CallFailed(cycle)

\* C33: a failed create or update call leaves the remembered identifier and
\* the last-synced address set unchanged; the last-synced set is always the
\* address list of the most recent successful call (it moves in a step
\* exactly to the list of a call that succeeds in that step, and starts
\* empty); and the cycle after a failed call that reads the same set makes
\* the same call again.
C33_FailedCallLeavesSyncState ==
    [][/\ (SyncCycle /\ CallFailed(sync'[1])) =>
              /\ webhook_id' = webhook_id
              /\ webhook_addresses' = webhook_addresses
       /\ webhook_addresses' = IF SyncCycle /\ CallSucceeded(sync'[1])
                               THEN sync'[1].call.addresses
                               ELSE webhook_addresses
       /\ (/\ SyncCycle /\ sync # <<>> /\ CallFailed(sync[1])
           /\ sync'[1].tier1_addresses = sync[1].tier1_addresses)
              => /\ sync'[1].call.op = sync[1].call.op
                 /\ sync'[1].call.addresses = sync[1].call.addresses]_vars

\* An update fails after an earlier call had succeeded: the last-synced set
\* is still the one of the earlier call.
C33_FailedUpdateAfterSuccess ==
    /\ sync # <<>>
    /\ sync[1].call.op = "edit"
    /\ sync[1].resp = <<FALSE>>
    /\ webhook_id # None
    /\ webhook_addresses # sync[1].call.addresses

\* ------------------------------------------------------------------------
\* Claims about create and update (checked under SpecSync)
\* ------------------------------------------------------------------------
\* C34: the loop calls create only while no identifier is remembered, and
\* update otherwise; a remembered identifier is never replaced or dropped.
\* So after a create that returned an identifier every later call is an
\* update made with that identifier.
C34_CreateOnlyWithoutIdentifier ==
    [][/\ (SyncCycle /\ sync'[1].call # NoCall) =>
              (sync'[1].call.op = "create" <=> webhook_id = None)
       /\ webhook_id # None => webhook_id' = webhook_id]_vars

\* An update is made after a create had returned the identifier.
C34_UpdateWithRememberedIdentifier ==
    /\ sync # <<>>
    /\ sync[1].call.op = "edit"
    /\ sync[1].resp = <<TRUE>>
    /\ webhook_id = "wh"
    /\ webhook_addresses = sync[1].call.addresses

\* ------------------------------------------------------------------------
\* Claims about the convergence of the subscription (checked under
\* SpecConverge)
\* ------------------------------------------------------------------------
\* From here on the tier-1 set is S, fits the cap, and no cycle ends with a
\* failed call.
StableAt(S) ==
    /\ Tier1Addresses(wallets) = S
    /\ Cardinality(S) <= tier1_max_wallets
    /\ sync # <<>> => ~CallFailed(sync[1])

\* The last-synced set is S and the last cycle made no call.
SyncedAt(S) ==
    /\ webhook_addresses = S
    /\ sync # <<>>
    /\ sync[1].call = NoCall

\* C35: if from some point on the tier-1 set stays the same set of at most
\* tier1_max_wallets addresses and the calls made succeed, then, the loop
\* being scheduled fairly, the last-synced set eventually equals that set
\* for good and the cycles make no further call.
C35_SyncConverges ==
    \A S \in SUBSET Addresses : <>[]StableAt(S) => <>[]SyncedAt(S)

\* The loop has caught up with a tier-1 set of two wallets after an update.
C35_CaughtUpAfterUpdate ==
    /\ SyncedAt(Tier1Addresses(wallets))
    /\ Cardinality(webhook_addresses) = 2
    /\ webhook_id = "wh"

\* ------------------------------------------------------------------------
\* Claims about the alert and the persisted tier (checked under SpecRace)
\* ------------------------------------------------------------------------
AlertSent == alerts_sent' = alerts_sent + 1

C36_ExiledWhileSending ==
    /\ handler # <<>> /\ handler[1].at = "send"
    /\ WalletOf(handler[1].wallet.address).tier = EXILED
    /\ alerts_sent < MaxRecords

\* ------------------------------------------------------------------------
\* Claims about re-discovered wallets (checked under SpecEnsure)
\* ------------------------------------------------------------------------
Ensured == returned' # returned

\* C37: ensure_wallet_exists for an address that has a record reports "not
\* new" and leaves the record (tier, metrics, discovery source, timestamps)
\* and the rest of the table as they were; a record is created, with tier
\* candidate, only when the address had none.
C37_ExistingWalletLeftAlone ==
    [][Ensured =>
          LET a == call'[1].address
          IN  /\ HasWallet(a) => (~returned'[1].is_new /\ wallets' = wallets)
              /\ wallets' # wallets =>
                    /\ ~HasWallet(a)
                    /\ returned'[1].is_new
                    /\ wallets' = Append(wallets, wallets'[Len(wallets')])
                    /\ wallets'[Len(wallets')].address = a
                    /\ wallets'[Len(wallets')].tier = CANDIDATE
              /\ returned'[1].is_new => wallets' # wallets]_vars

\* A wallet exiled by the scorer is ensured again later and is still exiled,
\* with its first discovery source.
C37_ExiledWalletRediscovered ==
    /\ call # <<>> /\ returned # <<>>
    /\ ~returned[1].is_new
    /\ HasWallet(call[1].address)
    /\ WalletOf(call[1].address).tier = EXILED
    /\ WalletOf(call[1].address).last_scored # <<>>
    /\ WalletOf(call[1].address).last_scored[1] < call[1].at
    /\ WalletOf(call[1].address).discovery_source # call[1].source

\* ------------------------------------------------------------------------
\* Claims about due wallets behind failing ones (checked under SpecStarve)
\* ------------------------------------------------------------------------
\* Wallet a has a record, was never scored and is in a non-terminal tier.
DueNeverScored(a) ==
    IF HasWallet(a)
    THEN WalletOf(a).last_scored = <<>> /\ WalletOf(a).tier \notin {EXILED, ARCHIVED}
    ELSE FALSE

ScoredOrTerminal(a) ==
    IF HasWallet(a)
    THEN WalletOf(a).last_scored # <<>> \/ WalletOf(a).tier \in {EXILED, ARCHIVED}
    ELSE FALSE

\* C38: a due wallet whose own processing does not fail is eventually
\* processed and gets its last-scored time, the loop iterating for ever,
\* even when the processing of the other due wallet fails in every
\* iteration.
C38_DueWalletEventuallyScored ==
    DueNeverScored("B") ~> ScoredOrTerminal("B")

\* The batch holds the failing wallet alone while the other one is due.
C38_FailingWalletFillsTheBatch ==
    /\ pcS = "fetch"
    /\ Len(batch) = 1 /\ Head(batch).address = FailingWallet
    /\ DueNeverScored("B")
    /\ errors = MaxErrors

====
